---- MODULE Spec2Model ----
(***************************************************************************)
(* Model of the protobuf wire-format codec: BinaryEncoder (encoder.ts),    *)
(* BinaryDecoder (decoder.ts) and the split-64 helpers of lib.ts.          *)
(*                                                                         *)
(* Number representation.  The host number type is an IEEE-754 double and  *)
(* the bitwise operators work on 32-bit words, but the model checker's     *)
(* integers stop at 2^31-1.  So                                            *)
(*   - a 32-bit word is a sequence of 4 bytes, least significant first;    *)
(*   - an integer-valued host number is a record [neg, mag] whose mag is   *)
(*     a sequence of bytes (least significant first, no leading zero);     *)
(*   - bytes, cursors and lengths, which stay small, are plain integers.   *)
(* Every arithmetic result on host numbers is rounded to 53 significant    *)
(* bits (round half to even), as the host does.                            *)
(***************************************************************************)
EXTENDS Integers, Sequences, FiniteSets, TLC

\* ------------------------------------------------------------------------
\* Bytes
\* ------------------------------------------------------------------------

P2 == [k \in 0..30 |-> 2^k]

\* F(a) and F(a, b) with the arguments evaluated once, before F is applied
Val1(F(_), a) == CHOOSE r \in {F(v) : v \in {a}} : TRUE

Val2(F(_, _), a, b) == CHOOSE r \in {F(v, w) : v \in {a}, w \in {b}} : TRUE

Val3(F(_, _, _), a, b, c) ==
    CHOOSE r \in {F(u, v, w) : u \in {a}, v \in {b}, w \in {c}} : TRUE

Max(a, b) == IF a >= b THEN a ELSE b

Min(a, b) == IF a <= b THEN a ELSE b

BitOf(v, k) == (v \div P2[k]) % 2

NibAnd == [x \in 0..15 |-> [y \in 0..15 |->
              BitOf(x, 0) * BitOf(y, 0) + 2 * BitOf(x, 1) * BitOf(y, 1)
                + 4 * BitOf(x, 2) * BitOf(y, 2) + 8 * BitOf(x, 3) * BitOf(y, 3)]]

BAnd(x, y) == NibAnd[x % 16][y % 16] + (16 * NibAnd[x \div 16][y \div 16])

BOr(x, y) == x + y - BAnd(x, y)

BXor(x, y) == x + y - 2 * BAnd(x, y)

\* number of significant bits of a byte
BitLen(v) == IF v = 0 THEN 0 ELSE CHOOSE k \in 1..8 : P2[k - 1] <= v /\ v < P2[k]

\* ------------------------------------------------------------------------
\* Magnitudes: byte sequences, least significant byte first
\* ------------------------------------------------------------------------

ByteAt(s, i) == IF i >= 1 /\ i <= Len(s) THEN s[i] ELSE 0

RECURSIVE MNorm(_)
MNorm(s) == IF s = <<>> THEN s
            ELSE IF s[Len(s)] # 0 THEN s
            ELSE Val1(MNorm, SubSeq(s, 1, Len(s) - 1))

\* magnitude of a small non-negative integer (n < 2^31)
MOfInt(n) == MNorm(<<n % 256, (n \div 256) % 256, (n \div 65536) % 256, n \div 16777216>>)

\* integer of a magnitude below 2^31
MToInt(s) == ByteAt(s, 1) + 256 * ByteAt(s, 2) + 65536 * ByteAt(s, 3)
                + 16777216 * ByteAt(s, 4)

\* ripple-carry addition from byte i on, with carry c
RECURSIVE MAddR(_, _, _, _)
MAddR(a, b, i, c) ==
    IF i > Max(Len(a), Len(b))
    THEN IF c = 1 THEN <<1>> ELSE <<>>
    ELSE LET s == ByteAt(a, i) + ByteAt(b, i) + c
         IN  IF s >= 256 THEN <<s - 256>> \o MAddR(a, b, i + 1, 1)
             ELSE <<s>> \o MAddR(a, b, i + 1, 0)

MAdd(a, b) == Val2(LAMBDA v, w : MAddR(v, w, 1, 0), a, b)

\* ripple-borrow subtraction from byte i on, with borrow c
RECURSIVE MSubR(_, _, _, _)
MSubR(a, b, i, c) ==
    IF i > Len(a) THEN <<>>
    ELSE LET d == ByteAt(a, i) - ByteAt(b, i) - c
         IN  IF d < 0 THEN <<d + 256>> \o MSubR(a, b, i + 1, 1)
             ELSE <<d>> \o MSubR(a, b, i + 1, 0)

\* a - b for magnitudes with a >= b
MSub(a, b) == Val2(LAMBDA v, w : MNorm(MSubR(v, w, 1, 0)), a, b)

MLess(a, b) ==
    IF Len(a) # Len(b) THEN Len(a) < Len(b)
    ELSE \E i \in 1..Len(a) :
            a[i] < b[i] /\ \A j \in (i + 1)..Len(a) : a[j] = b[j]

\* a * 2^k
MShl(a, k) ==
    LET q == k \div 8
        r == k % 8
        shifted(v) == [i \in 1..(Len(v) + q + 1) |->
                 ((ByteAt(v, i - q) * P2[r]) % 256) + (ByteAt(v, i - q - 1) \div P2[8 - r])]
    IN  MNorm(Val1(shifted, a))

\* floor(a / 2^k)
MShr(a, k) ==
    LET q == k \div 8
        r == k % 8
        shifted(v) == [i \in 1..Max(Len(v) - q, 0) |->
                 (ByteAt(v, i + q) \div P2[r]) + ((ByteAt(v, i + q + 1) * P2[8 - r]) % 256)]
    IN  MNorm(Val1(shifted, a))

\* column k of the schoolbook product: sum of a[i] * b[k + 1 - i] for i >= from
RECURSIVE MColumn(_, _, _, _)
MColumn(a, b, k, from) ==
    IF from > Len(a) THEN 0
    ELSE ByteAt(a, from) * ByteAt(b, k + 1 - from) + MColumn(a, b, k, from + 1)

\* carry propagation over the columns, from column k on
RECURSIVE MMulR(_, _, _, _)
MMulR(a, b, k, c) ==
    IF k > Len(a) + Len(b) THEN <<>>
    ELSE Val1(LAMBDA s : <<s % 256>> \o MMulR(a, b, k + 1, s \div 256),
              MColumn(a, b, k, 1) + c)

MMul(a, b) == Val2(LAMBDA v, w : MNorm(MMulR(v, w, 1, 0)), a, b)

\* long division of a magnitude by a small divisor d (0 < d <= 10^7), one
\* byte (two 4-bit steps) at a time from byte i down, with remainder r so far
RECURSIVE MDivSmallR(_, _, _, _)
MDivSmallR(a, d, i, r) ==
    IF i = 0 THEN <<<<>>, r>>
    ELSE LET r1 == r * 16 + (a[i] \div 16)
             r2 == (r1 % d) * 16 + (a[i] % 16)
         IN  Val2(LAMBDA q, rest : <<Append(rest[1], q), rest[2]>>,
                  (r1 \div d) * 16 + (r2 \div d),
                  Val1(LAMBDA r3 : MDivSmallR(a, d, i - 1, r3), r2 % d))

\* <<floor(a / d), a mod d>>
MDivSmall(a, d) ==
    Val1(LAMBDA qr : <<MNorm(qr[1]), qr[2]>>, Val1(LAMBDA v : MDivSmallR(v, d, Len(v), 0), a))

\* number of significant bits of a magnitude
MBitLen(a) == IF a = <<>> THEN 0 ELSE 8 * (Len(a) - 1) + BitLen(a[Len(a)])

\* bit i of a magnitude (bit 1 is the least significant)
MBit(a, i) == BitOf(ByteAt(a, ((i - 1) \div 8) + 1), (i - 1) % 8)

\* the nearest double of a magnitude: 53 significant bits, ties to even
\* a magnitude of more than 53 bits without its low `drop` bits, which q is
\* the magnitude above: rounded to the nearest, ties to even
MRoundAt(a, drop, q) ==
    LET half   == MBit(a, drop) = 1
        sticky == \E i \in 1..(drop - 1) : MBit(a, i) = 1
    IN  MShl(IF half /\ (sticky \/ MBit(q, 1) = 1) THEN MAdd(q, <<1>>) ELSE q, drop)

MRound(a) ==
    IF MBitLen(a) <= 53 THEN a
    ELSE Val1(LAMBDA drop : Val1(LAMBDA q : MRoundAt(a, drop, q), MShr(a, drop)),
              MBitLen(a) - 53)

\* ------------------------------------------------------------------------
\* Integer-valued host numbers
\* ------------------------------------------------------------------------

Num(neg, mag) == Val1(LAMBDA m : [neg |-> neg /\ m # <<>>, mag |-> m], mag)

N(n) == IF n < 0 THEN Num(TRUE, MOfInt(-n)) ELSE Num(FALSE, MOfInt(n))

\* 2^k
NPow2(k) == Num(FALSE, [i \in 1..((k \div 8) + 1) |-> IF i = (k \div 8) + 1 THEN P2[k % 8] ELSE 0])

NZero == N(0)

NNeg(x) == Val1(LAMBDA v : Num(~v.neg, v.mag), x)

NAbs(x) == Num(FALSE, x.mag)

NExactAddV(x, y) ==
    IF x.neg = y.neg THEN Num(x.neg, MAdd(x.mag, y.mag))
    ELSE IF MLess(x.mag, y.mag) THEN Num(y.neg, MSub(y.mag, x.mag))
    ELSE Num(x.neg, MSub(x.mag, y.mag))

NExactAdd(x, y) == Val2(NExactAddV, x, y)

NRound(x) == Val1(LAMBDA v : Num(v.neg, Val1(MRound, v.mag)), x)

NAdd(x, y) == NRound(NExactAdd(x, y))

NSub(x, y) == NAdd(x, NNeg(y))

NMul(x, y) == Val2(LAMBDA v, w : NRound(Num(v.neg # w.neg, MMul(v.mag, w.mag))), x, y)

NLessV(x, y) ==
    IF x.neg # y.neg THEN x.neg
    ELSE IF x.neg THEN MLess(y.mag, x.mag) ELSE MLess(x.mag, y.mag)

NLess(x, y) == Val2(NLessV, x, y)

NLeq(x, y) == Val2(LAMBDA v, w : v = w \/ NLessV(v, w), x, y)

\* Math.floor(x / 2^k) for x >= 0 (the only use in the sources)
NFloorDivPow2(x, k) == Num(FALSE, MShr(x.mag, k))

\* the small integer a host number denotes (|x| < 2^31)
NToInt(x) == IF x.neg THEN -MToInt(x.mag) ELSE MToInt(x.mag)

\* an integer is a host number iff it spans at most 53 significant bits
IsDouble(x) ==
    x.mag = <<>> \/
    \E lowest \in 1..MBitLen(x.mag) :
        /\ MBit(x.mag, lowest) = 1
        /\ \A j \in 1..(lowest - 1) : MBit(x.mag, j) = 0
        /\ MBitLen(x.mag) - lowest + 1 <= 53

\* ------------------------------------------------------------------------
\* 32-bit words and the host's bitwise operators
\* ------------------------------------------------------------------------

WZero == <<0, 0, 0, 0>>

WNot(w) == Val1(LAMBDA v : [i \in 1..4 |-> 255 - v[i]], w)

WAnd(a, b) == Val2(LAMBDA v, w : [i \in 1..4 |-> BAnd(v[i], w[i])], a, b)

WOr(a, b) == Val2(LAMBDA v, w : [i \in 1..4 |-> BOr(v[i], w[i])], a, b)

WXor(a, b) == Val2(LAMBDA v, w : [i \in 1..4 |-> BXor(v[i], w[i])], a, b)

\* w << k
WShl(w, k) ==
    LET q == k \div 8
        r == k % 8
    IN  Val1(LAMBDA v : [i \in 1..4 |-> ((ByteAt(v, i - q) * P2[r]) % 256)
                                          + (ByteAt(v, i - q - 1) \div P2[8 - r])], w)

\* w >>> k
WShr(w, k) ==
    LET q == k \div 8
        r == k % 8
    IN  Val1(LAMBDA v : [i \in 1..4 |-> (ByteAt(v, i + q) \div P2[r])
                                          + ((ByteAt(v, i + q + 1) * P2[8 - r]) % 256)], w)

\* w >> k
WSar(w, k) ==
    LET q == k \div 8
        r == k % 8
        at(v, j) == IF j > 4 THEN (IF v[4] >= 128 THEN 255 ELSE 0) ELSE v[j]
    IN  Val1(LAMBDA v : [i \in 1..4 |-> (at(v, i + q) \div P2[r])
                                          + ((at(v, i + q + 1) * P2[8 - r]) % 256)], w)

WInc(w) == Val1(LAMBDA s : [i \in 1..4 |-> s[i]], MAdd(w, <<1>>))

\* ToInt32 / ToUint32: the low 32 bits of an integer host number, in two's
\* complement when it is negative
ToWordV(x) ==
    IF x.neg THEN Val1(WInc, WNot([i \in 1..4 |-> ByteAt(x.mag, i)]))
    ELSE [i \in 1..4 |-> ByteAt(x.mag, i)]

ToWord(x) == Val1(ToWordV, x)

\* the host number of a word read as unsigned (x >>> 0)
FromU32(w) == Val1(LAMBDA v : Num(FALSE, MNorm(v)), w)

\* the host number of a word read as signed (the result of |, &, ^, ~, <<, >>)
FromI32(w) ==
    Val1(LAMBDA v : IF v[4] >= 128 THEN Num(TRUE, MNorm(WInc(WNot(v)))) ELSE FromU32(v), w)

\* ------------------------------------------------------------------------
\* Decimal strings: sequences of one-character strings
\* ------------------------------------------------------------------------

Digit == <<"0", "1", "2", "3", "4", "5", "6", "7", "8", "9">>

DigitVal(c) == CHOOSE d \in 0..9 : Digit[d + 1] = c

RECURSIVE MToDecR(_)
MToDecR(a) ==
    IF a = <<>> THEN <<>>
    ELSE Val1(LAMBDA qr : Append(MToDecR(qr[1]), Digit[qr[2] + 1]), MDivSmall(a, 10))

\* String(x) / "" + x for an integer host number below 2^53 in magnitude
NumToString(x) ==
    IF x.mag = <<>> THEN <<"0">>
    ELSE (IF x.neg THEN <<"-">> ELSE <<>>) \o MToDecR(x.mag)

\* ------------------------------------------------------------------------
\* The host's operators on integer-valued numbers
\* ------------------------------------------------------------------------

JAnd(x, y) == FromI32(WAnd(ToWord(x), ToWord(y)))

JOr(x, y) == FromI32(WOr(ToWord(x), ToWord(y)))

JXor(x, y) == FromI32(WXor(ToWord(x), ToWord(y)))

JNot(x) == FromI32(WNot(ToWord(x)))

JShl(x, k) == FromI32(WShl(ToWord(x), k))

JSar(x, k) == FromI32(WSar(ToWord(x), k))

JShr(x, k) == FromU32(WShr(ToWord(x), k))

\* truthiness of a number
Truthy(x) == x.mag # <<>>

\* program constants (constants.ts)
TWO_TO_31 == NPow2(31)

TWO_TO_32 == NPow2(32)

TWO_TO_63 == NPow2(63)

TWO_TO_64 == NPow2(64)

\* ------------------------------------------------------------------------
\* lib.ts
\* ------------------------------------------------------------------------

Pair(lo, hi) == [lo |-> lo, hi |-> hi]

\* convert(lo, hi) on the two words a split or a zigzag step hands to its callback
OfPair(p, convert(_, _)) == Val1(LAMBDA v : convert(v.lo, v.hi), p)

Str(s) == [str |-> s]

Hash(h) == [hash |-> h]

Undefined == [undef |-> TRUE]

\* the two words fromZigzag64 hands to convert
FromZigzag64(bitsLow, bitsHigh) ==
    Val1(LAMBDA signFlipMask :
            Pair(JXor(JOr(JShr(bitsLow, 1), JShl(bitsHigh, 31)), signFlipMask),
                    JXor(JShr(bitsHigh, 1), signFlipMask)),
         NNeg(JAnd(bitsLow, N(1))))

JoinUint64(low, high) == NAdd(NMul(high, TWO_TO_32), JShr(low, 0))

\* the manual two's complement of joinInt64, from bitsLow = (~bitsLow + 1) >>> 0
\* and bitsHigh = ~bitsHigh >>> 0 on
JoinNegatedInt64(bitsLow, bitsHigh) ==
    NNeg(JoinUint64(bitsLow,
                    IF bitsLow = NZero THEN JShr(NAdd(bitsHigh, N(1)), 0) ELSE bitsHigh))

JoinInt64(bitsLow, bitsHigh) ==
    IF Truthy(JAnd(bitsHigh, TWO_TO_31))
    THEN Val2(JoinNegatedInt64, JShr(NAdd(JNot(bitsLow), N(1)), 0), JShr(JNot(bitsHigh), 0))
    ELSE JoinUint64(bitsLow, bitsHigh)

\* decimalFrom1e7, the helper nested in joinUnsignedDecimalString
DecimalFrom1e7(digit1e7, needLeadingZeros) ==
    LET partial == IF Truthy(digit1e7) THEN NumToString(digit1e7) ELSE <<>>
    IN  IF Truthy(needLeadingZeros)
        THEN [i \in 1..(7 - Len(partial)) |-> "0"] \o partial
        ELSE partial

\* if (digit >= base) { next += Math.floor(digit / base); digit %= base; }
\* as <<digit, next>>
CarryInto(digit, next) ==
    IF NLess(digit, N(10000000)) THEN <<digit, next>>
    ELSE Val1(LAMBDA qr : <<N(qr[2]), NAdd(next, Num(FALSE, qr[1]))>>,
              MDivSmall(digit.mag, 10000000))

\* the carries from A to B and from B to C, and the three digits in base 10
JoinBase1e7(digitA, digitB, digitC) ==
    Val1(LAMBDA ab :
            Val1(LAMBDA bc : DecimalFrom1e7(bc[2], NZero) \o DecimalFrom1e7(bc[1], bc[2])
                                \o DecimalFrom1e7(ab[1], N(1)),
                 CarryInto(ab[2], digitC)),
         CarryInto(digitA, digitB))

\* the three base-1e7 digits of the 16:24:24 split, ignoring carries
Base1e7Digits(low, mid, high) ==
    Val3(JoinBase1e7,
         NAdd(NAdd(low, NMul(mid, N(6777216))), NMul(high, N(6710656))),
         NAdd(mid, NMul(high, N(8147497))),
         NMul(high, N(2)))

JoinUnsignedDecimalString(bitsLow, bitsHigh) ==
    IF NLeq(bitsHigh, N(2097151))
    THEN NumToString(NAdd(NMul(TWO_TO_32, bitsHigh), bitsLow))
    ELSE Val3(Base1e7Digits,
              JAnd(bitsLow, N(16777215)),
              JAnd(JShr(JOr(JShr(bitsLow, 24), JShl(bitsHigh, 8)), 0), N(16777215)),
              JAnd(JSar(bitsHigh, 16), N(65535)))

\* seeded fault: the two's complement without the carry into the high word
JoinNegatedDecimalStringNoCarry(bitsLow, bitsHigh) ==
    JoinUnsignedDecimalString(bitsLow, JShr(JNot(bitsHigh), 0))

\* the manual two's complement of joinSignedDecimalString, from
\* bitsLow = (~bitsLow + 1) >>> 0 on
JoinNegatedDecimalString(bitsLow, bitsHigh) ==
    JoinUnsignedDecimalString(
        bitsLow, JShr(NAdd(JNot(bitsHigh), IF bitsLow = NZero THEN N(1) ELSE NZero), 0))

JoinSignedDecimalString(bitsLow, bitsHigh) ==
    IF Truthy(JAnd(bitsHigh, TWO_TO_31))
    THEN <<"-">> \o Val2(JoinNegatedDecimalString, JShr(NAdd(JNot(bitsLow), N(1)), 0),
                         bitsHigh)
    ELSE JoinUnsignedDecimalString(bitsLow, bitsHigh)

JoinZigzag64(bitsLow, bitsHigh) == OfPair(FromZigzag64(bitsLow, bitsHigh), JoinInt64)

\* the hash string as its 8 code units
JoinHash64(bitsLow, bitsHigh) ==
    LET byte(x, k) == NToInt(JAnd(JShr(x, k), N(255)))
    IN  <<byte(bitsLow, 0), byte(bitsLow, 8), byte(bitsLow, 16), byte(bitsLow, 24),
          byte(bitsHigh, 0), byte(bitsHigh, 8), byte(bitsHigh, 16), byte(bitsHigh, 24)>>

\* value >>> 0 and Math.floor((value - lowBits) / TWO_TO_32) >>> 0 of value >= 0
SplitHalves(value) ==
    Val1(LAMBDA lowBits : Pair(lowBits, JShr(NFloorDivPow2(NSub(value, lowBits), 32), 0)),
         JShr(value, 0))

\* the two's complement conversion of splitInt64, from lowBits += 1 on
SplitNegated(lowBits, highBits) ==
    IF ~NLess(NSub(TWO_TO_32, N(1)), lowBits) THEN Pair(lowBits, highBits)
    ELSE Val1(LAMBDA high : Pair(NZero, IF NLess(NSub(TWO_TO_32, N(1)), high)
                                        THEN NZero ELSE high),
              NAdd(highBits, N(1)))

SplitInt64(value) ==
    Val1(LAMBDA s : IF ~NLess(value, NZero) THEN s
                    ELSE Val2(SplitNegated, NAdd(JShr(JNot(s.lo), 0), N(1)),
                              JShr(JNot(s.hi), 0)),
         SplitHalves(NAbs(value)))

SplitUint64(value) == SplitHalves(value)

\* the subtraction of 1 from the split representation of a negative value
SplitDecrement(s) ==
    IF s.lo = NZero
    THEN IF s.hi = NZero THEN Pair(NSub(TWO_TO_32, N(1)), NSub(TWO_TO_32, N(1)))
         ELSE Pair(NSub(TWO_TO_32, N(1)), NSub(s.hi, N(1)))
    ELSE Pair(NSub(s.lo, N(1)), s.hi)

SplitZigzag64(value) ==
    Val1(LAMBDA s : IF NLess(value, NZero) THEN SplitDecrement(s) ELSE s,
         SplitUint64(NMul(NAbs(value), N(2))))

\* muladd, nested in decimalStringToHash64: result = m * result + c, bytewise
RECURSIVE MulAdd(_, _, _, _)
MulAdd(resultBytes, m, c, i) ==
    IF i <= 8 /\ (m # 1 \/ c > 0)
    THEN LET r == m * resultBytes[i] + c
         IN  Val1(LAMBDA next : MulAdd(next, m, r \div 256, i + 1),
                  [resultBytes EXCEPT ![i] = r % 256])
    ELSE resultBytes

RECURSIVE DecDigits(_, _, _)
DecDigits(dec, i, resultBytes) ==
    IF i > Len(dec) THEN resultBytes
    ELSE Val1(LAMBDA next : DecDigits(dec, i + 1, next),
              MulAdd(resultBytes, 10, DigitVal(dec[i]), 1))

DecimalStringToHash64(dec) ==
    LET minus  == dec[1] = "-"
        digits == IF minus THEN Tail(dec) ELSE dec
        r      == DecDigits(digits, 1, <<0, 0, 0, 0, 0, 0, 0, 0>>)
        neg    == [i \in 1..8 |-> 255 - r[i]]
    IN  IF minus THEN MulAdd(neg, 1, 1, 1) ELSE r

\* seeded fault: a split that reads the hash from its last byte on
SplitHash64Reversed(hash) ==
    LET word(a, b, c, d) ==
            JShr(NAdd(NAdd(NAdd(N(a), JShl(N(b), 8)), JShl(N(c), 16)), JShl(N(d), 24)), 0)
    IN  Pair(word(hash[8], hash[7], hash[6], hash[5]),
             word(hash[4], hash[3], hash[2], hash[1]))

SplitHash64(hash) ==
    LET word(a, b, c, d) ==
            JShr(NAdd(NAdd(NAdd(N(a), JShl(N(b), 8)), JShl(N(c), 16)), JShl(N(d), 24)), 0)
    IN  Pair(word(hash[1], hash[2], hash[3], hash[4]),
             word(hash[5], hash[6], hash[7], hash[8]))

\* the two words toZigzag64 hands to convert
ToZigzag64(bitsLow, bitsHigh) ==
    Val1(LAMBDA signFlipMask :
            Pair(JXor(JShl(bitsLow, 1), signFlipMask),
                    JXor(JOr(JShl(bitsHigh, 1), JShr(bitsLow, 31)), signFlipMask)),
         JSar(bitsHigh, 31))

\* joinFloat32/joinFloat64 results: NaN, sign * Infinity, or sign * m * 2^e
\* kept as the triple (sign, m, e) the code multiplies together
FloatNaN == [float |-> "NaN"]

FloatInf(sign) == [float |-> "Infinity", sign |-> sign]

Float(sign, m, e) == [float |-> "finite", sign |-> sign, m |-> m, e |-> e]

\* sign * Infinity, NaN, or sign * mant * 2^e of the three fields
FloatOf(sign, exp, mant, maxExp, bias, hidden) ==
    IF exp = maxExp THEN (IF Truthy(mant) THEN FloatNaN ELSE FloatInf(sign))
    ELSE IF exp = 0 THEN Float(sign, mant, 1 - bias)
    ELSE Float(sign, NAdd(mant, NPow2(hidden)), exp - bias)

JoinFloat32(bitsLow, bitsHigh) ==
    Val3(LAMBDA sign, exp, mant : FloatOf(sign, exp, mant, 255, 150, 23),
         NToInt(NAdd(NMul(JSar(bitsLow, 31), N(2)), N(1))),
         NToInt(JAnd(JShr(bitsLow, 23), N(255))),
         JAnd(bitsLow, N(8388607)))

JoinFloat64(bitsLow, bitsHigh) ==
    Val3(LAMBDA sign, exp, mant : FloatOf(sign, exp, mant, 2047, 1075, 52),
         NToInt(NAdd(NMul(JSar(bitsHigh, 31), N(2)), N(1))),
         NToInt(JAnd(JShr(bitsHigh, 20), N(2047))),
         NAdd(NMul(TWO_TO_32, JAnd(bitsHigh, N(1048575))), bitsLow))

\* program constants (constants.ts), as sign * m * 2^e
FLOAT32_MIN == Float(1, N(1), -126)

FLOAT32_MAX == Float(1, N(16777215), 104)

FLOAT64_MIN == Float(1, N(1), -1022)

FLOAT64_MAX == Float(1, NSub(NPow2(53), N(1)), 971)

\* m1 * 2^e1 < m2 * 2^e2 for magnitudes m1 and m2
ScaledLess(m1, e1, m2, e2) ==
    IF m1 = <<>> \/ m2 = <<>> THEN m2 # <<>>
    ELSE IF MBitLen(m1) + e1 # MBitLen(m2) + e2 THEN MBitLen(m1) + e1 < MBitLen(m2) + e2
    ELSE MLess(MShl(m1, e1 - Min(e1, e2)), MShl(m2, e2 - Min(e1, e2)))

\* the integer part of m * 2^k, as | 0, & and >>> take it
TruncScaled(m, k) == IF k >= 0 THEN MShl(m, k) ELSE MShr(m, -k)

\* Math.round(m * 2^k)
RoundScaled(m, k) ==
    IF k >= 0 THEN MShl(m, k)
    ELSE IF -k > MBitLen(m) + 1 THEN <<>>
    ELSE MShr(MAdd(m, MShl(<<1>>, -k - 1)), -k)

\* value < 0 ? 1 : 0
SignBit(value) ==
    IF value.float = "NaN" THEN 0
    ELSE IF value.float = "Infinity" THEN (IF value.sign < 0 THEN 1 ELSE 0)
    ELSE IF value.sign < 0 /\ Truthy(value.m) THEN 1 ELSE 0

\* value === 0
IsZero(value) == value.float = "finite" /\ ~Truthy(value.m)

\* value > limit and value < limit for value = |value| and a finite limit > 0
Exceeds(value, limit) ==
    \/ value.float = "Infinity"
    \/ value.float = "finite" /\ ScaledLess(limit.m.mag, limit.e, value.m.mag, value.e)

Below(value, limit) ==
    value.float = "finite" /\ ScaledLess(value.m.mag, value.e, limit.m.mag, limit.e)

\* Math.floor(Math.log(value) / Math.LN2) of a finite value > 0. Math.log is an
\* approximation the host chooses and the quotient is rounded: at a power of two
\* the floor may fall one short, within 2^-50 below a power of two it may reach
\* the power's exponent
Log2Floors(value) ==
    IF value.float # "finite" \/ ~Truthy(value.m) THEN {0}
    ELSE LET bits == MBitLen(value.m.mag)
         IN  {bits - 1 + value.e}
                \cup (IF value.m.mag = MShl(<<1>>, bits - 1) THEN {bits - 2 + value.e} ELSE {})
                \cup (IF ~MLess(MShl(value.m.mag, 50),
                                MShl(MSub(MShl(<<1>>, 50), <<1>>), bits))
                      THEN {bits + value.e} ELSE {})

\* seeded fault: the sign bit left out of the word
WithSignLost(sign, bits) == JShr(bits, 0)

\* ((sign << 31) | bits) >>> 0
WithSign(sign, bits) == JShr(JOr(JShl(N(sign), 31), bits), 0)

\* splitFloat32 from exp = Math.floor(Math.log(value) / Math.LN2) on
SplitFloat32Normal(value, exp) ==
    WithSign(SignBit(value),
             JOr(JShl(N(exp + 127), 23),
                 JAnd(Num(FALSE, RoundScaled(value.m.mag, value.e - exp + 23)), N(8388607))))

\* the words (split64Low, split64High) splitFloat32 leaves, exp being the
\* host's Math.floor(Math.log(value) / Math.LN2)
SplitFloat32(value, exp) ==
    IF IsZero(value)
    THEN (IF value.sign > 0 THEN Pair(NZero, NZero) ELSE Pair(TWO_TO_31, NZero))
    ELSE IF value.float = "NaN" THEN Pair(N(2147483647), NZero)
    ELSE IF Exceeds(value, FLOAT32_MAX)
    THEN Pair(WithSign(SignBit(value), N(2139095040)), NZero)
    ELSE IF Below(value, FLOAT32_MIN)
    THEN Pair(WithSign(SignBit(value), Num(FALSE, RoundScaled(value.m.mag, value.e + 149))),
              NZero)
    ELSE Pair(SplitFloat32Normal(value, exp), NZero)

\* the denormal branch of splitFloat64, mant being value / Math.pow(2, -1074)
SplitFloat64Denormal(value, mant) ==
    Pair(JShr(Num(FALSE, mant), 0),
         WithSign(SignBit(value), Num(FALSE, TruncScaled(mant, -32))))

\* splitFloat64 from var mant = value * Math.pow(2, -exp) on
SplitFloat64Normal(value, exp) ==
    Pair(JShr(Num(FALSE, TruncScaled(value.m.mag, value.e - exp + 52)), 0),
         WithSign(SignBit(value),
                  JOr(JShl(N(exp + 1023), 20),
                      JAnd(Num(FALSE, TruncScaled(value.m.mag, value.e - exp + 20)),
                           N(1048575)))))

\* the words (split64Low, split64High) splitFloat64 leaves
SplitFloat64(value, exp) ==
    IF IsZero(value)
    THEN (IF value.sign > 0 THEN Pair(NZero, NZero) ELSE Pair(NZero, TWO_TO_31))
    ELSE IF value.float = "NaN" THEN Pair(NSub(TWO_TO_32, N(1)), N(2147483647))
    ELSE IF Exceeds(value, FLOAT64_MAX)
    THEN Pair(NZero, WithSign(SignBit(value), N(2146435072)))
    ELSE IF Below(value, FLOAT64_MIN)
    THEN SplitFloat64Denormal(value, TruncScaled(value.m.mag, value.e + 1074))
    ELSE SplitFloat64Normal(value, IF exp = 1024 THEN 1023 ELSE exp)

\* ------------------------------------------------------------------------
\* UInt64: a pair of words lo and hi
\* ------------------------------------------------------------------------

Msb(x) == Truthy(JAnd(x.hi, TWO_TO_31))

Zero(x) == x.lo = NZero /\ x.hi = NZero

Cmp(x, other) ==
    IF NLess(x.hi, other.hi) \/ (x.hi = other.hi /\ NLess(x.lo, other.lo)) THEN -1
    ELSE IF x.hi = other.hi /\ x.lo = other.lo THEN 0
    ELSE 1

RightShift(x) ==
    Val1(LAMBDA v : Pair(JShr(JOr(JShr(v.lo, 1), JShl(JAnd(v.hi, N(1)), 31)), 0),
                         JShr(JShr(v.hi, 1), 0)), x)

LeftShift(x) ==
    Val1(LAMBDA v : Pair(JShr(JShl(v.lo, 1), 0),
                         JShr(JOr(JShl(v.hi, 1), JShr(v.lo, 31)), 0)), x)

Add(x, other) ==
    Val2(LAMBDA lo, hi :
             Pair(JShr(JShr(JAnd(lo, NSub(TWO_TO_32, N(1))), 0), 0),
                  JShr(NAdd(JShr(JAnd(hi, NSub(TWO_TO_32, N(1))), 0),
                            IF ~NLess(lo, TWO_TO_32) THEN N(1) ELSE NZero), 0)),
         NAdd(x.lo, other.lo), NAdd(x.hi, other.hi))

Sub(x, other) ==
    Val2(LAMBDA lo, hi :
             Pair(JShr(JShr(JAnd(lo, NSub(TWO_TO_32, N(1))), 0), 0),
                  JShr(NSub(JShr(JAnd(hi, NSub(TWO_TO_32, N(1))), 0),
                            IF NLess(lo, NZero) THEN N(1) ELSE NZero), 0)),
         NSub(x.lo, other.lo), NSub(x.hi, other.hi))

\* the loop tests div is followed for: 63 shifts and 64 digits at most, and the
\* test that ends each loop
MaxDivSteps == 130

\* seeded fault: a long division that never subtracts
DivStepIdle(quotient, remainder, divisor, unit) == <<quotient, remainder>>

\* if (divisor.cmp(remainder) <= 0) { quotient = quotient.add(unit); remainder =
\* remainder.sub(divisor) }, as <<quotient, remainder>>
DivStep(quotient, remainder, divisor, unit) ==
    IF Cmp(divisor, remainder) <= 0
    THEN <<Add(quotient, unit), Sub(remainder, divisor)>>
    ELSE <<quotient, remainder>>

\* one loop test of div and the body it enters: at "shift" the loop
\* while (!divisor.msb()), at "divide" the loop while (!unit.zero()), at "return"
\* the return statement
DivPass(st) ==
    IF st.at = "shift"
    THEN IF Msb(st.divisor) THEN [st EXCEPT !.at = "divide"]
         ELSE [st EXCEPT !.divisor = LeftShift(@), !.unit = LeftShift(@)]
    ELSE IF st.at = "divide"
    THEN IF Zero(st.unit) THEN [st EXCEPT !.at = "return"]
         ELSE Val1(LAMBDA qr : [quotient |-> qr[1], remainder |-> qr[2],
                                divisor |-> RightShift(st.divisor),
                                unit |-> RightShift(st.unit), at |-> "divide"],
                   DivStep(st.quotient, st.remainder, st.divisor, st.unit))
    ELSE st

RECURSIVE DivRun(_, _)
\* n loop tests in a row
DivRun(st, n) ==
    IF n = 0 THEN st
    ELSE IF n = 1 THEN DivPass(st)
    ELSE Val1(LAMBDA half : DivRun(half, n - (n \div 2)), DivRun(st, n \div 2))

\* x.div(_divisor)
Div(x, divisor) ==
    IF divisor = NZero THEN [kind |-> "return", val |-> <<>>]
    ELSE Val1(LAMBDA st : IF st.at = "return"
                          THEN [kind |-> "return", val |-> <<st.quotient, st.remainder>>]
                          ELSE [kind |-> "running", val |-> Undefined],
              DivRun([quotient |-> Pair(NZero, NZero), remainder |-> Pair(x.lo, x.hi),
                      divisor |-> Pair(divisor, NZero), unit |-> Pair(N(1), NZero),
                      at |-> "shift"], MaxDivSteps))

\* new Uint8Array(data) for a number[]: every element is taken modulo 256
ByteSourceToUint8Array(data) == [i \in 1..Len(data) |-> data[i] % 256]

\* ------------------------------------------------------------------------
\* State
\* ------------------------------------------------------------------------

VARIABLES
    buffer,         \* BinaryEncoder.buffer: the bytes written since the last end()
    bufferId,       \* the identity of the array this.buffer refers to
    out,            \* the array the last end() returned
    outId,          \* the identity of that array, -1 before the first end()
    split64Low,     \* lib.split64Low
    split64High,    \* lib.split64High
    bytes,          \* BinaryDecoder.bytes: [data |-> the array] or Undefined
    start,          \* BinaryDecoder.start
    end,            \* BinaryDecoder.end
    cursor,         \* BinaryDecoder.cursor
    error,          \* BinaryDecoder.error
    instanceCache,  \* BinaryDecoder.instanceCache.length (cached decoders are cleared)
    live,           \* the caller: decoders obtained from alloc and not yet freed
    poolLog,        \* history: the shape of the alloc and free calls so far
    ret,            \* outcome of the last call: what it returned or threw
    log,            \* history: the writes that produced buffer / out
    calls,          \* history: number of decoder calls since the decoder was bound
    pc              \* the caller: "encode", "ended" (end() called), "decode"

vars == <<buffer, bufferId, out, outId, split64Low, split64High, bytes, start, end,
          cursor, error, instanceCache, live, poolLog, ret, log, calls, pc>>

encoderVars == <<buffer, bufferId, out, outId, split64Low, split64High, log>>

decoderVars == <<bytes, start, end, cursor, error, instanceCache, live, poolLog, calls>>

\* ------------------------------------------------------------------------
\* Bounds of the model
\* ------------------------------------------------------------------------

\* writes per encoder session
MaxWrites == 2

\* decoder calls per decoder session
MaxCalls == 2

\* calls of end() after which the encoder is written to again
MaxEnds == 1

\* decoders held at once, and alloc calls counted by the history
MaxAllocs == 101

\* the cap of BinaryDecoder.instanceCache
PoolCap == 100

\* ------------------------------------------------------------------------
\* asserts.ts and call outcomes
\* ------------------------------------------------------------------------

Bool(b) == [bool |-> b]

\* the encoder with the library's split registers, threaded through a write
Encoder == [buffer |-> buffer, split64Low |-> split64Low, split64High |-> split64High,
            kind |-> "return", val |-> Undefined]

Ok(o) == o.kind = "return"

\* assert(false): throw new AssertionError
Raise(e) == [e EXCEPT !.kind = "AssertionError"]

\* this.buffer.push(...)
Push(e, bs) == [e EXCEPT !.buffer = @ \o bs]

SetSplit(e, p) == [e EXCEPT !.split64Low = p.lo, !.split64High = p.hi]

\* an integer-valued number of the model, as opposed to NaN, an infinity or a
\* finite number kept as sign * m * 2^e
IsInteger(value) == "mag" \in DOMAIN value

\* whether sign * m * 2^e is a whole number
FloatIsWhole(f) == f.e >= 0 \/ NMul(NFloorDivPow2(f.m, -f.e), NPow2(-f.e)) = f.m

\* Math.floor(sign * m * 2^e)
FloatFloor(f) ==
    IF f.e >= 0 THEN NMul(N(f.sign), NMul(f.m, NPow2(f.e)))
    ELSE IF f.sign > 0 THEN NFloorDivPow2(f.m, -f.e)
    ELSE IF FloatIsWhole(f) THEN NNeg(NFloorDivPow2(f.m, -f.e))
    ELSE NNeg(NAdd(NFloorDivPow2(f.m, -f.e), N(1)))

\* value == Math.floor(value): false for NaN, true for an infinity
Floored(value) ==
    IF IsInteger(value) THEN TRUE
    ELSE IF value.float = "NaN" THEN FALSE
    ELSE IF value.float = "Infinity" THEN TRUE
    ELSE FloatIsWhole(value)

\* seeded fault: a range assert that lets the upper end through
InRangeInclusive(value, lo, hi) == IsInteger(value) /\ NLeq(lo, value) /\ NLeq(value, hi)

\* value >= lo && value < hi for integers lo and hi: false for NaN and for an
\* infinity, and the same for a finite number as for its floor
InRange(value, lo, hi) ==
    IF IsInteger(value) THEN NLeq(lo, value) /\ NLess(value, hi)
    ELSE IF value.float = "finite"
    THEN NLeq(lo, FloatFloor(value)) /\ NLess(FloatFloor(value), hi)
    ELSE FALSE

\* (value >>> k) & 0xff
ByteOf(value, k) == NToInt(JAnd(JShr(value, k), N(255)))

\* ------------------------------------------------------------------------
\* encoder.ts: BinaryEncoder
\* ------------------------------------------------------------------------

\* the loop of writeSplitVarint64 and its final push
RECURSIVE SplitVarintBytes(_, _)
SplitVarintBytes(lowBits, highBits) ==
    IF NLess(NZero, highBits) \/ NLess(N(127), lowBits)
    THEN <<NToInt(JOr(JAnd(lowBits, N(127)), N(128)))>>
            \o Val2(SplitVarintBytes, JShr(JOr(JShr(lowBits, 7), JShl(highBits, 25)), 0),
                    JShr(highBits, 7))
    ELSE <<NToInt(lowBits)>>

\* seeded fault: writeSplitVarint64 that encodes the low word only
WriteSplitVarint64LowOnly(e, lowBits, highBits) ==
    IF ~Ok(e) THEN e
    ELSE IF ~Floored(lowBits) \/ ~InRange(lowBits, NZero, TWO_TO_32) THEN Raise(e)
    ELSE IF ~Floored(highBits) \/ ~InRange(highBits, NZero, TWO_TO_32) THEN Raise(e)
    ELSE Push(e, SplitVarintBytes(lowBits, NZero))

WriteSplitVarint64(e, lowBits, highBits) ==
    IF ~Ok(e) THEN e
    ELSE IF ~Floored(lowBits) \/ ~InRange(lowBits, NZero, TWO_TO_32) THEN Raise(e)
    ELSE IF ~Floored(highBits) \/ ~InRange(highBits, NZero, TWO_TO_32) THEN Raise(e)
    ELSE Push(e, SplitVarintBytes(lowBits, highBits))

WriteUint32(e, value) ==
    IF ~Ok(e) THEN e
    ELSE IF ~Floored(value) \/ ~InRange(value, NZero, TWO_TO_32) THEN Raise(e)
    ELSE Push(e, <<ByteOf(value, 0), ByteOf(value, 8), ByteOf(value, 16), ByteOf(value, 24)>>)

WriteSplitFixed64(e, lowBits, highBits) ==
    IF ~Ok(e) THEN e
    ELSE IF ~Floored(lowBits) \/ ~InRange(lowBits, NZero, TWO_TO_32) THEN Raise(e)
    ELSE IF ~Floored(highBits) \/ ~InRange(highBits, NZero, TWO_TO_32) THEN Raise(e)
    ELSE WriteUint32(WriteUint32(e, lowBits), highBits)

\* the loop of writeUnsignedVarint32 and its final push
RECURSIVE Varint32Bytes(_)
Varint32Bytes(value) ==
    IF NLess(N(127), value)
    THEN <<NToInt(JOr(JAnd(value, N(127)), N(128)))>> \o Val1(Varint32Bytes, JShr(value, 7))
    ELSE <<NToInt(value)>>

WriteUnsignedVarint32(e, value) ==
    IF ~Ok(e) THEN e
    ELSE IF ~Floored(value) \/ ~InRange(value, NZero, TWO_TO_32) THEN Raise(e)
    ELSE Push(e, Varint32Bytes(value))

\* the nine-byte loop of writeSignedVarint32 for a negative value
RECURSIVE SignedVarint32Bytes(_, _)
SignedVarint32Bytes(value, i) ==
    IF i < 9
    THEN <<NToInt(JOr(JAnd(value, N(127)), N(128)))>>
            \o Val2(SignedVarint32Bytes, JSar(value, 7), i + 1)
    ELSE <<>>

\* seeded fault: writeSignedVarint32 that writes a negative value as the
\* varint of its low 32 bits, without sign extension to 64 bits
WriteSignedVarint32Truncated(e, value) ==
    IF ~Ok(e) THEN e
    ELSE IF ~Floored(value) \/ ~InRange(value, NNeg(TWO_TO_31), TWO_TO_31) THEN Raise(e)
    ELSE Push(e, Varint32Bytes(JShr(value, 0)))

WriteSignedVarint32(e, value) ==
    IF ~Ok(e) THEN e
    ELSE IF ~Floored(value) \/ ~InRange(value, NNeg(TWO_TO_31), TWO_TO_31) THEN Raise(e)
    ELSE IF NLeq(NZero, value) THEN WriteUnsignedVarint32(e, value)
    ELSE Push(e, SignedVarint32Bytes(value, 0) \o <<1>>)

WriteUnsignedVarint64(e, value) ==
    IF ~Ok(e) THEN e
    ELSE IF ~Floored(value) \/ ~InRange(value, NZero, TWO_TO_64) THEN Raise(e)
    ELSE Val1(LAMBDA s : WriteSplitVarint64(s, s.split64Low, s.split64High),
              SetSplit(e, SplitInt64(value)))

WriteSignedVarint64(e, value) ==
    IF ~Ok(e) THEN e
    ELSE IF ~Floored(value) \/ ~InRange(value, NNeg(TWO_TO_63), TWO_TO_63) THEN Raise(e)
    ELSE Val1(LAMBDA s : WriteSplitVarint64(s, s.split64Low, s.split64High),
              SetSplit(e, SplitInt64(value)))

WriteZigzagVarint32(e, value) ==
    IF ~Ok(e) THEN e
    ELSE IF ~Floored(value) \/ ~InRange(value, NNeg(TWO_TO_31), TWO_TO_31) THEN Raise(e)
    ELSE WriteUnsignedVarint32(e, JShr(JXor(JShl(value, 1), JSar(value, 31)), 0))

WriteZigzagVarint64(e, value) ==
    IF ~Ok(e) THEN e
    ELSE IF ~Floored(value) \/ ~InRange(value, NNeg(TWO_TO_63), TWO_TO_63) THEN Raise(e)
    ELSE Val1(LAMBDA s : WriteSplitVarint64(s, s.split64Low, s.split64High),
              SetSplit(e, SplitZigzag64(value)))

\* the callback of writeZigzagVarintHash64 returns the (lo >>> 0, hi >>> 0) it writes
WriteZigzagVarintHash64(e, hash) ==
    IF ~Ok(e) THEN e
    ELSE Val1(LAMBDA s :
                Val1(LAMBDA z : WriteSplitVarint64(s, JShr(z.lo, 0), JShr(z.hi, 0)),
                     ToZigzag64(s.split64Low, s.split64High)),
              SetSplit(e, SplitHash64(hash)))

WriteZigzagVarint64String(e, value) ==
    IF ~Ok(e) THEN e
    ELSE IF Len(value) = 0 THEN Raise(e)
    ELSE WriteZigzagVarintHash64(e, DecimalStringToHash64(value))

WriteUint8(e, value) ==
    IF ~Ok(e) THEN e
    ELSE IF ~Floored(value) \/ ~InRange(value, NZero, N(256)) THEN Raise(e)
    ELSE Push(e, <<ByteOf(value, 0)>>)

WriteUint16(e, value) ==
    IF ~Ok(e) THEN e
    ELSE IF ~Floored(value) \/ ~InRange(value, NZero, N(65536)) THEN Raise(e)
    ELSE Push(e, <<ByteOf(value, 0), ByteOf(value, 8)>>)

WriteUint64(e, value) ==
    IF ~Ok(e) THEN e
    ELSE IF ~Floored(value) \/ ~InRange(value, NZero, TWO_TO_64) THEN Raise(e)
    ELSE Val1(LAMBDA s : WriteUint32(WriteUint32(s, s.split64Low), s.split64High),
              SetSplit(e, SplitUint64(value)))

WriteInt8(e, value) ==
    IF ~Ok(e) THEN e
    ELSE IF ~Floored(value) \/ ~InRange(value, N(-128), N(128)) THEN Raise(e)
    ELSE Push(e, <<ByteOf(value, 0)>>)

WriteInt16(e, value) ==
    IF ~Ok(e) THEN e
    ELSE IF ~Floored(value) \/ ~InRange(value, N(-32768), N(32768)) THEN Raise(e)
    ELSE Push(e, <<ByteOf(value, 0), ByteOf(value, 8)>>)

WriteInt32(e, value) ==
    IF ~Ok(e) THEN e
    ELSE IF ~Floored(value) \/ ~InRange(value, NNeg(TWO_TO_31), TWO_TO_31) THEN Raise(e)
    ELSE Push(e, <<ByteOf(value, 0), ByteOf(value, 8), ByteOf(value, 16), ByteOf(value, 24)>>)

WriteInt64(e, value) ==
    IF ~Ok(e) THEN e
    ELSE IF ~Floored(value) \/ ~InRange(value, NNeg(TWO_TO_63), TWO_TO_63) THEN Raise(e)
    ELSE Val1(LAMBDA s : WriteSplitFixed64(s, s.split64Low, s.split64High),
              SetSplit(e, SplitInt64(value)))

WriteBool(e, value) ==
    IF ~Ok(e) THEN e ELSE Push(e, <<IF value THEN 1 ELSE 0>>)

WriteVarintHash64(e, hash) ==
    IF ~Ok(e) THEN e
    ELSE Val1(LAMBDA s : WriteSplitVarint64(s, s.split64Low, s.split64High),
              SetSplit(e, SplitHash64(hash)))

WriteEnum(e, value) ==
    IF ~Ok(e) THEN e
    ELSE IF ~Floored(value) \/ ~InRange(value, NNeg(TWO_TO_31), TWO_TO_31) THEN Raise(e)
    ELSE WriteSignedVarint32(e, value)

\* this.buffer.push.apply(this.buffer, bytes) for a Uint8Array bytes
WriteBytes(e, bs) ==
    IF ~Ok(e) THEN e
    ELSE Push(e, bs)

\* seeded fault: a pass of writeString that encodes a high surrogate followed by
\* a code unit other than a low surrogate on three bytes
WriteStringPassLoneHigh(s, value) ==
    LET c == value[s.i + 1]
        second == value[s.i + 2]
        pair == (c - 55296) * 1024 + second - 56320 + 65536
        to(n, bs) == [e |-> Push(s.e, bs), i |-> s.i + n]
        three == <<(c \div 4096) + 224, ((c \div 64) % 64) + 128, (c % 64) + 128>>
    IN  IF c < 128 THEN to(1, <<c>>)
        ELSE IF c < 2048 THEN to(1, <<(c \div 64) + 192, (c % 64) + 128>>)
        ELSE IF c >= 55296 /\ c <= 56319 /\ s.i + 1 < Len(value)
                /\ second >= 56320 /\ second <= 57343
        THEN to(2, <<(pair \div 262144) + 240, ((pair \div 4096) % 64) + 128,
                     ((pair \div 64) % 64) + 128, (pair % 64) + 128>>)
        ELSE to(1, three)

\* one pass of the for loop of writeString at index s.i of value; c >> 6 is
\* c \div 64, c & 63 is c % 64, and | joins disjoint bits
WriteStringPass(s, value) ==
    LET c == value[s.i + 1]
        second == value[s.i + 2]
        pair == (c - 55296) * 1024 + second - 56320 + 65536
        to(n, bs) == [e |-> Push(s.e, bs), i |-> s.i + n]
    IN  IF c < 128 THEN to(1, <<c>>)
        ELSE IF c < 2048 THEN to(1, <<(c \div 64) + 192, (c % 64) + 128>>)
        ELSE IF c < 65536
        THEN IF c >= 55296 /\ c <= 56319 /\ s.i + 1 < Len(value)
             THEN IF second >= 56320 /\ second <= 57343
                  THEN to(2, <<(pair \div 262144) + 240, ((pair \div 4096) % 64) + 128,
                               ((pair \div 64) % 64) + 128, (pair % 64) + 128>>)
                  ELSE to(1, <<>>)
             ELSE to(1, <<(c \div 4096) + 224, ((c \div 64) % 64) + 128, (c % 64) + 128>>)
        ELSE to(1, <<>>)

\* at most k * 16^level passes of the for loop: k runs of 16^level passes each
RECURSIVE WriteStringRun(_, _, _, _)
WriteStringRun(s, value, level, k) ==
    IF k = 0 \/ ~(s.i < Len(value)) THEN s
    ELSE Val1(LAMBDA t : WriteStringRun(t, value, level, k - 1),
              IF level = 0 THEN WriteStringPass(s, value)
              ELSE WriteStringRun(s, value, level - 1, 16))

\* the for loop of writeString, run 4096 passes at a time
RECURSIVE WriteStringLoop(_, _)
WriteStringLoop(s, value) ==
    IF ~(s.i < Len(value)) THEN s
    ELSE Val1(LAMBDA t : WriteStringLoop(t, value), WriteStringRun(s, value, 2, 16))

\* writeString returns this.buffer.length - oldLength
WriteString(e, value) ==
    IF ~Ok(e) THEN e
    ELSE Val1(LAMBDA r : [r.e EXCEPT !.val = N(Len(r.e.buffer) - Len(e.buffer))],
              WriteStringLoop([e |-> e, i |-> 0], value))

\* seeded fault: writeFixedHash64 that writes the high word first
WriteFixedHash64Swapped(e, hash) ==
    IF ~Ok(e) THEN e
    ELSE Val1(LAMBDA s : WriteUint32(WriteUint32(s, s.split64High), s.split64Low),
              SetSplit(e, SplitHash64(hash)))

WriteFixedHash64(e, hash) ==
    IF ~Ok(e) THEN e
    ELSE Val1(LAMBDA s : WriteUint32(WriteUint32(s, s.split64Low), s.split64High),
              SetSplit(e, SplitHash64(hash)))

\* ------------------------------------------------------------------------
\* decoder.ts: BinaryDecoder
\* ------------------------------------------------------------------------

\* an optional argument that was passed
Some(n) == [some |-> n]

\* a byte array value
Bytes(data) == [data |-> data]

Decoder == [bytes |-> bytes, start |-> start, end |-> end, cursor |-> cursor,
            error |-> error]

\* the fields of a decoder after construction without arguments, and after clear()
Cleared == [bytes |-> Undefined, start |-> 0, end |-> 0, cursor |-> 0, error |-> FALSE]

Return(d, v) == [d |-> d, kind |-> "return", val |-> v]

Throw(d, kind) == [d |-> d, kind |-> kind, val |-> Undefined]

\* return convert(lowBits, highBits): the read's outcome with the callback applied
\* to the two words it ends with
Converted(o, convert(_, _)) ==
    Val1(LAMBDA r : IF ~Ok(r) THEN r ELSE Return(r.d, convert(r.val.lo, r.val.hi)), o)

\* if (this.bytes)
HasBytes(d) == d.bytes # Undefined

\* this.bytes[i]; -1 stands for the undefined of an index outside the array
At(d, i) == IF i >= 0 /\ i < Len(d.bytes.data) THEN d.bytes.data[i + 1] ELSE -1

\* the operand a bitwise operator makes of a byte read: undefined becomes 0
OrZero(b) == IF b < 0 THEN 0 ELSE b

\* temp < 128, false for undefined
Below128(b) == b >= 0 /\ b < 128

\* this.cursor += n
Advance(d, n) == [d EXCEPT !.cursor = @ + n]

\* seeded fault: a read without its assertion
AssertCursorOff(d, v) == Return(d, v)

\* assert(this.cursor <= this.end); return v
AssertCursor(d, v) ==
    IF d.cursor <= d.end THEN Return(d, v) ELSE Throw(d, "AssertionError")

\* seeded fault: a setBlock that also clears the error flag
SetBlockFresh(d, data, st, length) ==
    LET arr == ByteSourceToUint8Array(data.data)
        s   == IF st = Undefined THEN 0 ELSE st.some
    IN  [d EXCEPT !.bytes = Bytes(arr),
                  !.start = s,
                  !.end = IF length # Undefined THEN s + length.some ELSE Len(arr),
                  !.cursor = s,
                  !.error = FALSE]

SetBlock(d, data, st, length) ==
    LET arr == ByteSourceToUint8Array(data.data)
        s   == IF st = Undefined THEN 0 ELSE st.some
    IN  [d EXCEPT !.bytes = Bytes(arr),
                  !.start = s,
                  !.end = IF length # Undefined THEN s + length.some ELSE Len(arr),
                  !.cursor = s]

GetError(d) == d.error \/ d.cursor < 0 \/ d.cursor > d.end

\* the reads of readSplitVarint64 from the byte at cursor + i on, lowBits and
\* highBits holding the bits of the bytes before it: the number of bytes read,
\* the last one, and the two words
RECURSIVE SplitVarintFrom(_, _, _, _)
SplitVarintFrom(d, i, lowBits, highBits) ==
    LET temp == At(d, d.cursor + i)
        bits == N(BAnd(OrZero(temp), 127))
    IN  Val2(LAMBDA low, high :
                IF temp >= 128 /\ i < 9 THEN SplitVarintFrom(d, i + 1, low, high)
                ELSE [n |-> i + 1, temp |-> temp, lowBits |-> low, highBits |-> high],
             IF i < 4 THEN JOr(lowBits, JShl(bits, 7 * i))
             ELSE IF i = 4 THEN JOr(lowBits, JShl(bits, 28))
             ELSE lowBits,
             IF i < 4 THEN highBits
             ELSE IF i = 4 THEN JOr(highBits, JSar(bits, 4))
             ELSE JOr(highBits, JShl(bits, (7 * (i - 5)) + 3)))

\* readSplitVarint64 up to its call of convert(lowBits >>> 0, highBits >>> 0)
ReadSplitVarint64(d) ==
    IF ~HasBytes(d) THEN Throw(d, "TypeError")
    ELSE Val1(LAMBDA r :
                IF Below128(r.temp)
                THEN Return(Advance(d, r.n),
                            Pair(JShr(r.lowBits, 0), JShr(r.highBits, 0)))
                ELSE Throw(Advance(d, r.n), "AssertionError"),
              SplitVarintFrom(d, 0, NZero, NZero))

FromZigzagPair(low, high) == FromZigzag64(low, high)

FromZigzagHash64(low, high) == OfPair(FromZigzag64(low, high), JoinHash64)

FromZigzagSignedDecimalString(low, high) ==
    OfPair(FromZigzag64(low, high), JoinSignedDecimalString)

\* the loop of readSplitFixed64, on the 32-bit words that << and | produce:
\* word = (word << 8) | bytes[i + off] for i from last down to the cursor
RECURSIVE Fixed64Word(_, _, _, _)
Fixed64Word(d, i, last, off) ==
    IF i > last THEN WZero
    ELSE LET rest == Fixed64Word(d, i + 1, last, off)
         IN  WOr(WShl(rest, 8), <<OrZero(At(d, i + off)), 0, 0, 0>>)

\* readSplitFixed64 up to its call of convert(lowBits, highBits)
ReadSplitFixed64(d) ==
    IF ~HasBytes(d) THEN Throw(d, "TypeError")
    ELSE LET c == d.cursor
         IN  Return(Advance(d, 8),
                    Pair(FromI32(Fixed64Word(d, c, c + 7, 0)),
                         FromI32(Fixed64Word(d, c, c + 7, 4))))

\* the number of cursor++ skipVarint performs
SkipCount(d) ==
    LET more(k) == BAnd(OrZero(At(d, d.cursor + k)), 128) # 0
    IN  (CHOOSE k \in 0..Len(d.bytes.data) :
            ~more(k) /\ \A j \in 0..(k - 1) : more(j)) + 1

SkipVarint(d) ==
    IF HasBytes(d) THEN Return(Advance(d, SkipCount(d)), Undefined)
    ELSE Return(d, Undefined)

\* the number of cursor-- unskipVarint performs
RECURSIVE UnskipCount(_)
UnskipCount(value) ==
    IF NLess(N(128), value) THEN 1 + Val1(UnskipCount, JShr(value, 7)) ELSE 1

UnskipVarint(d, value) == Return(Advance(d, -UnskipCount(value)), Undefined)

\* x |= (temp & 0x7f) << 7k for the byte at cursor + k, with 0x0f for the fifth
Varint32Or(d, x, k) ==
    JOr(x, JShl(N(BAnd(OrZero(At(d, d.cursor + k)), IF k = 4 THEN 15 ELSE 127)), 7 * k))

\* seeded fault: readUnsignedVarint32 that accepts a varint of any length
Varint32TailLenient(d, x) == AssertCursor(Advance(d, 10), x)

\* seeded fault: readUnsignedVarint32 that fails whenever the fifth byte has the
\* continuation bit
Varint32TailStrict(d, x) == Throw(Advance(d, 10), "AssertionError")

\* readUnsignedVarint32 after five bytes with the continuation bit
Varint32Tail(d, x) ==
    LET \* the && chain of bytes[this.cursor++] >= 128 stops at its first false
        stops == {j \in 0..4 : ~(At(d, d.cursor + 5 + j) >= 128)}
        more  == IF stops = {} THEN 5
                 ELSE (CHOOSE j \in stops : \A i \in stops : j <= i) + 1
    IN  IF stops = {} THEN Throw(Advance(d, 10), "AssertionError")
        ELSE AssertCursor(Advance(d, 5 + more), x)

\* the unrolled reads of readUnsignedVarint32 from the byte at cursor + k on,
\* x holding the bits of the bytes before it
RECURSIVE Varint32From(_, _, _)
Varint32From(d, x, k) ==
    IF k = 5 THEN Varint32Tail(d, x)
    ELSE Val1(LAMBDA y :
                IF Below128(At(d, d.cursor + k))
                THEN AssertCursor(Advance(d, k + 1), IF k = 4 THEN JShr(y, 0) ELSE y)
                ELSE Varint32From(d, y, k + 1),
              Varint32Or(d, x, k))

ReadUnsignedVarint32(d) ==
    IF ~HasBytes(d) THEN Throw(d, "TypeError") ELSE Varint32From(d, NZero, 0)

ReadSignedVarint32(d) == ReadUnsignedVarint32(d)

\* seeded fault: readZigzagVarint32 that halves the value without restoring the sign
ReadZigzagVarint32Halved(d) ==
    Val1(LAMBDA r : IF ~Ok(r) THEN r ELSE Return(r.d, JShr(r.val, 1)),
         ReadUnsignedVarint32(d))

ReadZigzagVarint32(d) ==
    Val1(LAMBDA r : IF ~Ok(r) THEN r
                    ELSE Return(r.d, JXor(JShr(r.val, 1), NNeg(JAnd(r.val, N(1))))),
         ReadUnsignedVarint32(d))

\* this.bytes[this.cursor + k] as the result of readUint8: the byte or undefined
Elem(b) == IF b < 0 THEN Undefined ELSE N(b)

ReadUint8(d) ==
    IF ~HasBytes(d) THEN Throw(d, "TypeError")
    ELSE AssertCursor(Advance(d, 1), Elem(At(d, d.cursor)))

\* (a << 0) | (b << 8) of the two bytes at the cursor
Word16(d) ==
    JOr(JShl(N(OrZero(At(d, d.cursor))), 0), JShl(N(OrZero(At(d, d.cursor + 1))), 8))

\* (a << 0) | (b << 8) | (c << 16) | (d << 24) of the four bytes at the cursor
Word32(d) ==
    JOr(JOr(Word16(d), JShl(N(OrZero(At(d, d.cursor + 2))), 16)),
        JShl(N(OrZero(At(d, d.cursor + 3))), 24))

ReadUint16(d) ==
    IF ~HasBytes(d) THEN Throw(d, "TypeError")
    ELSE AssertCursor(Advance(d, 2), Word16(d))

ReadUint32(d) ==
    IF ~HasBytes(d) THEN Throw(d, "TypeError")
    ELSE AssertCursor(Advance(d, 4), JShr(Word32(d), 0))

\* the two readUint32 calls in sequence of readUint64, readInt64 and readDouble
ReadTwoUint32(d) ==
    Val1(LAMBDA low :
            IF ~Ok(low) THEN low
            ELSE Val1(LAMBDA high : IF ~Ok(high) THEN high
                                    ELSE Return(high.d, Pair(low.val, high.val)),
                      ReadUint32(low.d)),
         ReadUint32(d))

ReadUint64(d) == Converted(ReadTwoUint32(d), JoinUint64)

ReadInt8(d) ==
    IF ~HasBytes(d) THEN Throw(d, "TypeError")
    ELSE AssertCursor(Advance(d, 1), JSar(JShl(N(OrZero(At(d, d.cursor))), 24), 24))

\* seeded fault: readInt16 without the sign extension
ReadInt16Unsigned(d) ==
    IF ~HasBytes(d) THEN Throw(d, "TypeError")
    ELSE AssertCursor(Advance(d, 2), Word16(d))

ReadInt16(d) ==
    IF ~HasBytes(d) THEN Throw(d, "TypeError")
    ELSE AssertCursor(Advance(d, 2), JSar(JShl(Word16(d), 16), 16))

ReadInt32(d) ==
    IF ~HasBytes(d) THEN Throw(d, "TypeError")
    ELSE AssertCursor(Advance(d, 4), Word32(d))

ReadInt64(d) == Converted(ReadTwoUint32(d), JoinInt64)

ReadInt64String(d) ==
    Converted(ReadTwoUint32(d), LAMBDA lo, hi : Str(JoinSignedDecimalString(lo, hi)))

ReadFloat(d) ==
    Val1(LAMBDA low : IF ~Ok(low) THEN low
                      ELSE Return(low.d, JoinFloat32(low.val, NZero)),
         ReadUint32(d))

ReadDouble(d) == Converted(ReadTwoUint32(d), JoinFloat64)

ReadBool(d) ==
    IF HasBytes(d) THEN Return(Advance(d, 1), Bool(OrZero(At(d, d.cursor)) # 0))
    ELSE Return(d, Bool(FALSE))

ReadFixedHash64(d) ==
    IF ~HasBytes(d) THEN Throw(d, "TypeError")
    ELSE Return(Advance(d, 8), Hash([k \in 1..8 |-> OrZero(At(d, d.cursor + k - 1))]))

\* Uint8Array.subarray(begin, end): a negative index counts from the end
Subarray(data, begin, e) ==
    LET clamp(i) == IF i < 0 THEN Max(Len(data) + i, 0) ELSE Min(i, Len(data))
    IN  SubSeq(data, clamp(begin) + 1, clamp(e))

ReadBytes(d, length) ==
    IF ~HasBytes(d) THEN Throw(d, "TypeError")
    ELSE IF length < 0 \/ d.cursor + length > Len(d.bytes.data)
    THEN Throw([d EXCEPT !.error = TRUE], "TypeError")
    ELSE AssertCursor(Advance(d, length),
                      Bytes(Subarray(d.bytes.data, d.cursor, d.cursor + length)))

\* lib.byteArrayToString of at most CHUNK_SIZE numbers: String.fromCharCode takes
\* each number modulo 2^16
ByteArrayToString(codeUnits) == [k \in 1..Len(codeUnits) |-> codeUnits[k] % 65536]

\* seeded fault: a flush that empties codeUnits without adding them to result
ReadStringFlushLost(st) ==
    IF Len(st.codeUnits) >= 8192 THEN [st EXCEPT !.codeUnits = <<>>] ELSE st

\* if (codeUnits.length >= 8192) { result += String.fromCharCode.apply(null,
\* codeUnits); codeUnits.length = 0 }
ReadStringFlush(st) ==
    IF Len(st.codeUnits) >= 8192
    THEN [st EXCEPT !.result = @ \o ByteArrayToString(st.codeUnits), !.codeUnits = <<>>]
    ELSE st

\* one pass of the while loop of readString, on the local cursor, result and
\* codeUnits; a continuation byte takes the continue past the flush
ReadStringPass(d, st) ==
    LET c == st.cursor
        b0 == At(d, c)
        b(k) == OrZero(At(d, c + k))
        codepoint == BAnd(b0, 7) * 262144 + BAnd(b(1), 63) * 4096
                       + BAnd(b(2), 63) * 64 + BAnd(b(3), 63) - 65536
        low  == (codepoint % 1024) + 56320
        high == ((codepoint \div 1024) % 1024) + 55296
        to(n, units) == [st EXCEPT !.cursor = c + n, !.codeUnits = @ \o units]
    IN  IF Below128(b0) THEN ReadStringFlush(to(1, <<b0>>))
        ELSE IF b0 >= 0 /\ b0 < 192 THEN to(1, <<>>)
        ELSE IF b0 >= 0 /\ b0 < 224
        THEN ReadStringFlush(to(2, <<BAnd(b0, 31) * 64 + BAnd(b(1), 63)>>))
        ELSE IF b0 >= 0 /\ b0 < 240
        THEN ReadStringFlush(to(3, <<BAnd(b0, 15) * 4096 + BAnd(b(1), 63) * 64
                                      + BAnd(b(2), 63)>>))
        ELSE IF b0 >= 0 /\ b0 < 248 THEN ReadStringFlush(to(4, <<high, low>>))
        ELSE ReadStringFlush(to(1, <<>>))

\* at most k * 16^level passes of the while loop: k runs of 16^level passes each
RECURSIVE ReadStringRun(_, _, _, _, _)
ReadStringRun(d, e, st, level, k) ==
    IF k = 0 \/ ~(st.cursor < e) THEN st
    ELSE Val1(LAMBDA t : ReadStringRun(d, e, t, level, k - 1),
              IF level = 0 THEN ReadStringPass(d, st)
              ELSE ReadStringRun(d, e, st, level - 1, 16))

\* the while loop of readString, run 4096 passes at a time
RECURSIVE ReadStringLoop(_, _, _)
ReadStringLoop(d, e, st) ==
    IF ~(st.cursor < e) THEN st
    ELSE Val1(LAMBDA t : ReadStringLoop(d, e, t), ReadStringRun(d, e, st, 2, 16))

ReadString(d, length) ==
    IF ~HasBytes(d) THEN Throw(d, "TypeError")
    ELSE Val1(LAMBDA r : Return([d EXCEPT !.cursor = r.cursor],
                                Str(r.result \o ByteArrayToString(r.codeUnits))),
              ReadStringLoop(d, d.cursor + length,
                             [cursor |-> d.cursor, result |-> <<>>, codeUnits |-> <<>>]))

\* ------------------------------------------------------------------------
\* The caller: one encoder session, end(), then one decoder session
\* ------------------------------------------------------------------------

Init ==
    /\ buffer = <<>>
    /\ bufferId = 0
    /\ out = <<>>
    /\ outId = -1
    /\ split64Low = NZero
    /\ split64High = NZero
    /\ bytes = Undefined
    /\ start = 0
    /\ end = 0
    /\ cursor = 0
    /\ error = FALSE
    /\ instanceCache = 0
    /\ live = 0
    /\ poolLog = [cyclic |-> TRUE, batch |-> TRUE, allocs |-> 0, frees |-> 0,
                  freed |-> FALSE]
    /\ ret = [op |-> "new", kind |-> "return", val |-> Undefined, c0 |-> 0]
    /\ log = <<>>
    /\ calls = 0
    /\ pc = "encode"

\* a call of encoder method op with argument arg, whose outcome is e
EncoderStep(op, arg, e) ==
    /\ pc = "encode"
    /\ Len(log) < MaxWrites
    /\ buffer' = e.buffer
    /\ split64Low' = e.split64Low
    /\ split64High' = e.split64High
    /\ log' = IF Ok(e)
              THEN Append(log, [op |-> op, arg |-> arg, at |-> Len(buffer),
                                n |-> Len(e.buffer) - Len(buffer)])
              ELSE log
    /\ out' = IF outId = bufferId THEN e.buffer ELSE out
    /\ ret' = [op |-> op, kind |-> e.kind, val |-> e.val, c0 |-> Len(buffer), arg |-> arg]
    /\ UNCHANGED <<bufferId, outId, decoderVars, pc>>

\* a call of decoder method op with argument arg, whose outcome is o
DecoderStepArg(op, arg, o) ==
    /\ pc = "decode"
    /\ calls < MaxCalls
    /\ bytes' = o.d.bytes
    /\ start' = o.d.start
    /\ end' = o.d.end
    /\ cursor' = o.d.cursor
    /\ error' = o.d.error
    /\ calls' = calls + 1
    /\ ret' = [op |-> op, kind |-> o.kind, val |-> o.val, c0 |-> cursor, arg |-> arg]
    /\ UNCHANGED <<encoderVars, instanceCache, live, poolLog, pc>>

\* a call of decoder method op, whose outcome is o
DecoderStep(op, o) == DecoderStepArg(op, Undefined, o)

writeSplitVarint64(lowBits, highBits) ==
    EncoderStep("writeSplitVarint64", Pair(lowBits, highBits),
                WriteSplitVarint64(Encoder, lowBits, highBits))

writeSplitFixed64(lowBits, highBits) ==
    EncoderStep("writeSplitFixed64", Pair(lowBits, highBits),
                WriteSplitFixed64(Encoder, lowBits, highBits))

writeUnsignedVarint32(value) ==
    EncoderStep("writeUnsignedVarint32", value, WriteUnsignedVarint32(Encoder, value))

writeSignedVarint32(value) ==
    EncoderStep("writeSignedVarint32", value, WriteSignedVarint32(Encoder, value))

writeUnsignedVarint64(value) ==
    EncoderStep("writeUnsignedVarint64", value, WriteUnsignedVarint64(Encoder, value))

writeSignedVarint64(value) ==
    EncoderStep("writeSignedVarint64", value, WriteSignedVarint64(Encoder, value))

writeZigzagVarint32(value) ==
    EncoderStep("writeZigzagVarint32", value, WriteZigzagVarint32(Encoder, value))

writeZigzagVarint64(value) ==
    EncoderStep("writeZigzagVarint64", value, WriteZigzagVarint64(Encoder, value))

writeZigzagVarint64String(value) ==
    EncoderStep("writeZigzagVarint64String", Str(value),
                WriteZigzagVarint64String(Encoder, value))

writeZigzagVarintHash64(hash) ==
    EncoderStep("writeZigzagVarintHash64", Hash(hash), WriteZigzagVarintHash64(Encoder, hash))

writeUint8(value) == EncoderStep("writeUint8", value, WriteUint8(Encoder, value))

writeUint16(value) == EncoderStep("writeUint16", value, WriteUint16(Encoder, value))

writeUint32(value) == EncoderStep("writeUint32", value, WriteUint32(Encoder, value))

writeUint64(value) == EncoderStep("writeUint64", value, WriteUint64(Encoder, value))

writeInt8(value) == EncoderStep("writeInt8", value, WriteInt8(Encoder, value))

writeInt16(value) == EncoderStep("writeInt16", value, WriteInt16(Encoder, value))

writeInt32(value) == EncoderStep("writeInt32", value, WriteInt32(Encoder, value))

writeInt64(value) == EncoderStep("writeInt64", value, WriteInt64(Encoder, value))

writeBool(value) == EncoderStep("writeBool", Bool(value), WriteBool(Encoder, value))

writeVarintHash64(hash) ==
    EncoderStep("writeVarintHash64", Hash(hash), WriteVarintHash64(Encoder, hash))

writeFixedHash64(hash) ==
    EncoderStep("writeFixedHash64", Hash(hash), WriteFixedHash64(Encoder, hash))

\* seeded fault: end() that empties the array it hands out and keeps writing to it
SameArray(id) == id

\* this.buffer = []: an array that is no array handed out before
NewArray(id) == id + 1

writeString(value) == EncoderStep("writeString", Str(value), WriteString(Encoder, value))

writeEnum(value) == EncoderStep("writeEnum", value, WriteEnum(Encoder, value))

writeBytes(bs) == EncoderStep("writeBytes", Bytes(bs), WriteBytes(Encoder, bs))

\* length()
Length ==
    /\ pc = "encode"
    /\ ret.op # "length"
    /\ ret' = [op |-> "length", kind |-> "return", val |-> N(Len(buffer)), c0 |-> 0]
    /\ UNCHANGED <<encoderVars, decoderVars, pc>>

\* end(): hand the buffer out and start a fresh one
EndCall ==
    /\ out' = buffer
    /\ outId' = bufferId
    /\ buffer' = <<>>
    /\ bufferId' = NewArray(bufferId)
    /\ ret' = [op |-> "end", kind |-> "return", val |-> Bytes(buffer), c0 |-> 0]
    /\ UNCHANGED <<split64Low, split64High, decoderVars>>

\* the end() after which the caller turns to decoding
End ==
    /\ pc = "encode"
    /\ pc' = "ended"
    /\ EndCall
    /\ UNCHANGED log

\* an end() after which the caller goes on writing
endAndWrite ==
    /\ pc = "encode"
    /\ bufferId < MaxEnds
    /\ pc' = "encode"
    /\ EndCall
    /\ log' = <<>>

\* seeded fault: alloc constructs a decoder although the pool holds one
PoolPopNever(n) == n

\* seeded fault: free pushes at the cap
PoolPushUncapped(n) == n + 1

\* if (BinaryDecoder.instanceCache.length) instanceCache.pop()
PoolPop(n) == IF n > 0 THEN n - 1 ELSE n

\* if (BinaryDecoder.instanceCache.length < 100) instanceCache.push(this)
PoolPush(n) == IF n < PoolCap THEN n + 1 ELSE n

\* the history after an alloc: the calls are no longer alloc().free() cycles when
\* a decoder is still held, and no longer allocations followed by frees when a
\* free came before; the counts are kept while one of the shapes holds
LogAlloc ==
    LET cyclic == poolLog.cyclic /\ live = 0
        batch == poolLog.batch /\ poolLog.frees = 0
        kept == cyclic \/ batch
    IN  [poolLog EXCEPT !.cyclic = cyclic, !.batch = batch,
                        !.allocs = IF kept THEN @ + 1 ELSE 0,
                        !.frees = IF kept THEN @ ELSE 0]

\* the history after a free of a held decoder
LogFree ==
    [poolLog EXCEPT !.frees = IF poolLog.cyclic \/ poolLog.batch THEN @ + 1 ELSE 0,
                    !.freed = TRUE]

\* the history after a second free of the same decoder
LogFreeAgain ==
    [poolLog EXCEPT !.cyclic = FALSE, !.batch = FALSE, !.allocs = 0, !.frees = 0]

\* BinaryDecoder.alloc(data, st, length); an argument left out is Undefined.
\* A cached decoder is a cleared one, so both branches start from Cleared.
AllocCall(data, st, length) ==
    /\ LET d == IF data # Undefined THEN SetBlock(Cleared, data, st, length) ELSE Cleared
       IN  /\ bytes' = d.bytes
           /\ start' = d.start
           /\ end' = d.end
           /\ cursor' = d.cursor
           /\ error' = d.error
    /\ instanceCache' = PoolPop(instanceCache)
    /\ live' = live + 1
    /\ poolLog' = LogAlloc
    /\ calls' = 0
    /\ ret' = [op |-> "alloc", kind |-> "return", val |-> Undefined, c0 |-> 0]
    /\ pc' = "decode"
    /\ UNCHANGED encoderVars

\* the first alloc of the caller
alloc(data, st, length) ==
    /\ pc = "ended"
    /\ AllocCall(data, st, length)

\* an alloc by a caller that obtained decoders before; the decoder it returns is
\* the one the decoder variables describe from here on
allocMore(data, st, length) ==
    /\ pc = "decode"
    /\ live < MaxAllocs
    /\ poolLog.allocs < MaxAllocs
    /\ AllocCall(data, st, length)

\* free() of a decoder the caller holds: clear(), then the push below the cap
free ==
    /\ pc = "decode"
    /\ live > 0
    /\ bytes' = Cleared.bytes
    /\ start' = Cleared.start
    /\ end' = Cleared.end
    /\ cursor' = Cleared.cursor
    /\ error' = Cleared.error
    /\ instanceCache' = PoolPush(instanceCache)
    /\ live' = live - 1
    /\ poolLog' = LogFree
    /\ ret' = [op |-> "free", kind |-> "return", val |-> Undefined, c0 |-> cursor]
    /\ UNCHANGED <<encoderVars, calls, pc>>

\* free() of a decoder that was freed before: it is pushed a second time
freeAgain ==
    /\ pc = "decode"
    /\ poolLog.freed
    /\ bytes' = Cleared.bytes
    /\ start' = Cleared.start
    /\ end' = Cleared.end
    /\ cursor' = Cleared.cursor
    /\ error' = Cleared.error
    /\ instanceCache' = PoolPush(instanceCache)
    /\ poolLog' = LogFreeAgain
    /\ ret' = [op |-> "free", kind |-> "return", val |-> Undefined, c0 |-> cursor]
    /\ UNCHANGED <<encoderVars, live, calls, pc>>

\* clear()
clear == DecoderStep("clear", Return(Cleared, Undefined))

setBlock(data, st, length) ==
    DecoderStep("setBlock", Return(SetBlock(Decoder, data, st, length), Undefined))

setEnd(e) == DecoderStep("setEnd", Return([Decoder EXCEPT !.end = e], Undefined))

reset == DecoderStep("reset", Return([Decoder EXCEPT !.cursor = start], Undefined))

setCursor(c) == DecoderStep("setCursor", Return([Decoder EXCEPT !.cursor = c], Undefined))

advance(count) == DecoderStep("advance", AssertCursor(Advance(Decoder, count), Undefined))

skipVarint == DecoderStep("skipVarint", SkipVarint(Decoder))

unskipVarint(value) == DecoderStepArg("unskipVarint", value, UnskipVarint(Decoder, value))

readSplitVarint64 == DecoderStep("readSplitVarint64", ReadSplitVarint64(Decoder))

readSplitZigzagVarint64 ==
    DecoderStep("readSplitZigzagVarint64", Converted(ReadSplitVarint64(Decoder), FromZigzagPair))

readSplitFixed64 == DecoderStep("readSplitFixed64", ReadSplitFixed64(Decoder))

readUnsignedVarint32 == DecoderStep("readUnsignedVarint32", ReadUnsignedVarint32(Decoder))

readSignedVarint32 == DecoderStep("readSignedVarint32", ReadSignedVarint32(Decoder))

readZigzagVarint32 == DecoderStep("readZigzagVarint32", ReadZigzagVarint32(Decoder))

readUnsignedVarint64 ==
    DecoderStep("readUnsignedVarint64", Converted(ReadSplitVarint64(Decoder), JoinUint64))

readUnsignedVarint64String ==
    DecoderStep("readUnsignedVarint64String",
                Converted(ReadSplitVarint64(Decoder),
                          LAMBDA lo, hi : Str(JoinUnsignedDecimalString(lo, hi))))

readSignedVarint64 ==
    DecoderStep("readSignedVarint64", Converted(ReadSplitVarint64(Decoder), JoinInt64))

readZigzagVarint64 ==
    DecoderStep("readZigzagVarint64", Converted(ReadSplitVarint64(Decoder), JoinZigzag64))

readZigzagVarintHash64 ==
    DecoderStep("readZigzagVarintHash64",
                Converted(ReadSplitVarint64(Decoder),
                          LAMBDA lo, hi : Hash(FromZigzagHash64(lo, hi))))

readZigzagVarint64String ==
    DecoderStep("readZigzagVarint64String",
                Converted(ReadSplitVarint64(Decoder),
                          LAMBDA lo, hi : Str(FromZigzagSignedDecimalString(lo, hi))))

readVarintHash64 ==
    DecoderStep("readVarintHash64",
                Converted(ReadSplitVarint64(Decoder),
                          LAMBDA lo, hi : Hash(JoinHash64(lo, hi))))

readUint8 == DecoderStep("readUint8", ReadUint8(Decoder))

readUint16 == DecoderStep("readUint16", ReadUint16(Decoder))

readUint32 == DecoderStep("readUint32", ReadUint32(Decoder))

readUint64 == DecoderStep("readUint64", ReadUint64(Decoder))

readInt8 == DecoderStep("readInt8", ReadInt8(Decoder))

readInt16 == DecoderStep("readInt16", ReadInt16(Decoder))

readInt32 == DecoderStep("readInt32", ReadInt32(Decoder))

readInt64 == DecoderStep("readInt64", ReadInt64(Decoder))

readInt64String == DecoderStep("readInt64String", ReadInt64String(Decoder))

readFloat == DecoderStep("readFloat", ReadFloat(Decoder))

readDouble == DecoderStep("readDouble", ReadDouble(Decoder))

readBool == DecoderStep("readBool", ReadBool(Decoder))

readString(length) == DecoderStepArg("readString", length, ReadString(Decoder, length))

readBytes(length) == DecoderStepArg("readBytes", length, ReadBytes(Decoder, length))

readFixedHash64 == DecoderStep("readFixedHash64", ReadFixedHash64(Decoder))

\* ------------------------------------------------------------------------
\* Inputs
\* ------------------------------------------------------------------------

MaxUint32 == NSub(TWO_TO_32, N(1))

\* low and high words given to writeSplitVarint64: the values where the
\* encoding changes length, and one out of range each
SplitLows == {N(0), N(127), N(128), N(16384), MaxUint32, TWO_TO_32}

SplitHighs == {N(0), N(1), N(8), TWO_TO_31, MaxUint32, N(-1)}

\* arguments of the 32-bit varint writers; the last of each is out of range
Uint32s == {N(0), N(127), N(128), N(300), N(16384), NPow2(21), NPow2(28), TWO_TO_31,
            MaxUint32, TWO_TO_32}

Int32s == {N(0), N(300), N(-1), N(-128), NNeg(TWO_TO_31), NSub(TWO_TO_31, N(1)), TWO_TO_31}

\* arguments of the 64-bit varint writers, all of them host numbers
Uint64s == {N(0), N(300), TWO_TO_32, NPow2(53), NSub(TWO_TO_64, NPow2(11)), TWO_TO_64}

Int64s == {N(0), N(-1), NNeg(TWO_TO_32), NNeg(TWO_TO_63), NSub(TWO_TO_63, NPow2(10)),
           TWO_TO_63}

\* a call of a function of lib.ts: dec is the decimal string the hash in hand was
\* made from, if any
LibStep(op, arg, val, dec) ==
    /\ ret' = [op |-> op, kind |-> "return", val |-> val, arg |-> arg, dec |-> dec]
    /\ UNCHANGED <<buffer, bufferId, out, outId, log, decoderVars, pc>>

decimalStringToHash64(dec) ==
    /\ LibStep("decimalStringToHash64", Str(dec), Hash(DecimalStringToHash64(dec)), Str(dec))
    /\ UNCHANGED <<split64Low, split64High>>

\* splitHash64 leaves its result in split64Low and split64High
splitHash64(hash, dec) ==
    /\ split64Low' = SplitHash64(hash).lo
    /\ split64High' = SplitHash64(hash).hi
    /\ LibStep("splitHash64", Hash(hash), Undefined, dec)

\* the join functions, called on the two words splitHash64 left
joinHash64 ==
    /\ ret.op = "splitHash64"
    /\ LibStep("joinHash64", ret.arg, Str(JoinHash64(split64Low, split64High)), ret.dec)
    /\ UNCHANGED <<split64Low, split64High>>

joinSignedDecimalString ==
    /\ ret.op = "splitHash64"
    /\ LibStep("joinSignedDecimalString", ret.arg,
               Str(JoinSignedDecimalString(split64Low, split64High)), ret.dec)
    /\ UNCHANGED <<split64Low, split64High>>

joinUnsignedDecimalString ==
    /\ ret.op = "splitHash64"
    /\ LibStep("joinUnsignedDecimalString", ret.arg,
               Str(JoinUnsignedDecimalString(split64Low, split64High)), ret.dec)
    /\ UNCHANGED <<split64Low, split64High>>

\* splitFloat32 and splitFloat64 leave their result in split64Low and split64High
splitFloat32(value) ==
    \E exp \in Log2Floors(value) :
        /\ split64Low' = SplitFloat32(value, exp).lo
        /\ split64High' = SplitFloat32(value, exp).hi
        /\ LibStep("splitFloat32", value, Undefined, Undefined)

splitFloat64(value) ==
    \E exp \in Log2Floors(value) :
        /\ split64Low' = SplitFloat64(value, exp).lo
        /\ split64High' = SplitFloat64(value, exp).hi
        /\ LibStep("splitFloat64", value, Undefined, Undefined)

\* the joins, called on the two words the matching split left
joinFloat32 ==
    /\ ret.op = "splitFloat32"
    /\ LibStep("joinFloat32", ret.arg, JoinFloat32(split64Low, split64High), Undefined)
    /\ UNCHANGED <<split64Low, split64High>>

joinFloat64 ==
    /\ ret.op = "splitFloat64"
    /\ LibStep("joinFloat64", ret.arg, JoinFloat64(split64Low, split64High), Undefined)
    /\ UNCHANGED <<split64Low, split64High>>

\* new UInt64(lo, hi): the object in hand
UInt64(lo, hi) ==
    /\ ret' = [op |-> "UInt64", kind |-> "return", val |-> Pair(lo, hi), arg |-> <<lo, hi>>]
    /\ UNCHANGED <<encoderVars, decoderVars, pc>>

\* a call of div on the UInt64 in hand
div(divisor) ==
    /\ ret.op = "UInt64"
    /\ ret' = Val1(LAMBDA o : [op |-> "div", kind |-> o.kind, val |-> o.val,
                                arg |-> <<ret.val, divisor>>], Div(ret.val, divisor))
    /\ UNCHANGED <<encoderVars, decoderVars, pc>>

\* 8-byte hashes: all zero, the test suite's hashC, all ones, and one whose
\* words both have the top bit set
Hashes == {<<0, 0, 0, 0, 0, 0, 0, 0>>, <<18, 52, 86, 120, 135, 101, 67, 33>>,
           <<255, 255, 255, 255, 255, 255, 255, 255>>, <<1, 0, 0, 128, 0, 2, 0, 128>>}

\* signed 64-bit integers, written as their decimal strings
DecimalValues == {N(0), N(1), N(-1), N(-2), N(2147483647), TWO_TO_31, NNeg(TWO_TO_31),
                  MaxUint32, NPow2(53), NExactAdd(TWO_TO_63, N(-1)), NNeg(TWO_TO_63)}

Decimals == {NumToString(v) : v \in DecimalValues}

\* n bytes 0xff followed by the bytes of tail
Overlong(n, tail) == Bytes([i \in 1..n |-> 255] \o tail)

\* hand-made blocks whose first ten bytes all have the continuation bit set
OverlongBlocks == {Overlong(10, <<>>), Overlong(11, <<0>>), Overlong(12, <<0>>),
                   Bytes([i \in 1..10 |-> 128] \o <<1>>)}

\* what the caller decodes: the encoder's output or, when it encoded nothing,
\* one of the hand-made blocks
Blocks(handMade) == {Bytes(out)} \cup (IF log = <<>> THEN handMade ELSE {})

\* ------------------------------------------------------------------------
\* Specifications: one per family of operations
\* ------------------------------------------------------------------------

\* split 64-bit varints and the 64-bit varint readers
Next ==
    \/ \E lowBits \in SplitLows, highBits \in SplitHighs : writeSplitVarint64(lowBits, highBits)
    \/ End
    \/ \E data \in Blocks(OverlongBlocks) : alloc(data, Undefined, Undefined)
    \/ readSplitVarint64
    \/ readUnsignedVarint64
    \/ readSignedVarint64
    \/ readZigzagVarint64
    \/ readUnsignedVarint32

Spec == Init /\ [][Next]_vars

\* every varint writer of the encoder
NextWriters ==
    \/ \E lowBits \in SplitLows, highBits \in SplitHighs : writeSplitVarint64(lowBits, highBits)
    \/ \E value \in Uint32s : writeUnsignedVarint32(value)
    \/ \E value \in Int32s : writeSignedVarint32(value)
    \/ \E value \in Int32s : writeZigzagVarint32(value)
    \/ \E value \in Uint64s : writeUnsignedVarint64(value)
    \/ \E value \in Int64s : writeSignedVarint64(value)
    \/ \E value \in Int64s : writeZigzagVarint64(value)
    \/ \E value \in Decimals : writeZigzagVarint64String(value)
    \/ \E hash \in Hashes : writeVarintHash64(hash)
    \/ \E hash \in Hashes : writeZigzagVarintHash64(hash)
    \/ End

SpecWriters == Init /\ [][NextWriters]_vars

\* zigzag varints over the decimal-string channel
NextZigzagString ==
    \/ \E value \in Decimals : writeZigzagVarint64String(value)
    \/ End
    \/ alloc(Bytes(out), Undefined, Undefined)
    \/ readZigzagVarint64String
    \/ readUnsignedVarint64String

SpecZigzagString == Init /\ [][NextZigzagString]_vars

\* 64-bit hashes
NextHash64 ==
    \/ \E hash \in Hashes : writeVarintHash64(hash)
    \/ \E hash \in Hashes : writeZigzagVarintHash64(hash)
    \/ \E hash \in Hashes : writeFixedHash64(hash)
    \/ End
    \/ alloc(Bytes(out), Undefined, Undefined)
    \/ readVarintHash64
    \/ readZigzagVarintHash64
    \/ readFixedHash64
    \/ readSplitFixed64
    \/ readInt64String

SpecHash64 == Init /\ [][NextHash64]_vars

\* 32-bit varints
NextVarint32 ==
    \/ \E value \in Uint32s : writeUnsignedVarint32(value)
    \/ \E value \in Int32s : writeSignedVarint32(value)
    \/ \E value \in Int32s : writeZigzagVarint32(value)
    \/ End
    \/ alloc(Bytes(out), Undefined, Undefined)
    \/ readUnsignedVarint32
    \/ readSignedVarint32
    \/ readZigzagVarint32

SpecVarint32 == Init /\ [][NextVarint32]_vars

\* arguments of the fixed-width writers; the last of each is out of range
Uint8s == {N(0), N(200), N(255), N(256)}

Int8s == {N(-128), N(-1), N(127), N(128)}

Uint16s == {N(258), N(65535), N(65536)}

Int16s == {N(-32768), N(-2), N(32767), N(-32769)}

FixedUint32s == {N(0), N(16909060), MaxUint32, TWO_TO_32}

FixedInt32s == {NNeg(TWO_TO_31), N(-2), NSub(TWO_TO_31, N(1)), TWO_TO_31}

\* fixed-width integers
NextFixed ==
    \/ \E value \in Uint8s : writeUint8(value)
    \/ \E value \in Uint16s : writeUint16(value)
    \/ \E value \in FixedUint32s : writeUint32(value)
    \/ \E value \in Uint64s : writeUint64(value)
    \/ \E value \in Int8s : writeInt8(value)
    \/ \E value \in Int16s : writeInt16(value)
    \/ \E value \in FixedInt32s : writeInt32(value)
    \/ \E value \in Int64s : writeInt64(value)
    \/ End
    \/ alloc(Bytes(out), Undefined, Undefined)
    \/ readUint8
    \/ readUint16
    \/ readUint32
    \/ readUint64
    \/ readInt8
    \/ readInt16
    \/ readInt32
    \/ readInt64

SpecFixed == Init /\ [][NextFixed]_vars

\* hand-made blocks for the decoder on its own: the 3-byte input of the test
\* suite, an empty block, an unterminated varint, and UTF-8 text ("é€" and
\* the first byte of a 4-byte sequence)
DecoderBlocks == {Bytes(<<0, 1, 2>>), Bytes(<<>>), Overlong(11, <<0>>),
                  Bytes(<<195, 169, 226, 130, 172, 240, 159, 152>>)}

\* the (start, length) arguments given with a block
Windows == {<<Undefined, Undefined>>, <<Some(1), Some(1)>>, <<Some(0), Some(4)>>}

\* the decoder's operations on hand-made blocks and on no block at all
NextDecoder ==
    \/ End
    \/ \E data \in DecoderBlocks, w \in Windows : alloc(data, w[1], w[2])
    \/ alloc(Undefined, Undefined, Undefined)
    \/ \E data \in DecoderBlocks, w \in Windows : setBlock(data, w[1], w[2])
    \/ \E e \in {0, 5} : setEnd(e)
    \/ reset
    \/ \E c \in {-1, 2} : setCursor(c)
    \/ \E count \in {-1, 1} : advance(count)
    \/ skipVarint
    \/ \E value \in {N(1), N(300)} : unskipVarint(value)
    \/ readSplitVarint64
    \/ readSplitZigzagVarint64
    \/ readSplitFixed64
    \/ readUnsignedVarint32
    \/ readSignedVarint32
    \/ readZigzagVarint32
    \/ readUnsignedVarint64
    \/ readUnsignedVarint64String
    \/ readSignedVarint64
    \/ readZigzagVarint64
    \/ readZigzagVarintHash64
    \/ readZigzagVarint64String
    \/ readVarintHash64
    \/ readUint8
    \/ readUint16
    \/ readUint32
    \/ readUint64
    \/ readInt8
    \/ readInt16
    \/ readInt32
    \/ readInt64
    \/ readFloat
    \/ readDouble
    \/ readBool
    \/ \E length \in {2, 3} : readString(length)
    \/ \E length \in {-1, 1, 4} : readBytes(length)
    \/ readFixedHash64

SpecDecoder == Init /\ [][NextDecoder]_vars

\* hand-made blocks of 5 to 10 bytes 0xff followed by nothing, by 0x00, by 0x01,
\* or by 0x7f 0xc8
TailBlocks == {Overlong(n, tail) : n \in 5..10, tail \in {<<>>, <<0>>, <<1>>, <<127, 200>>}}

\* readUnsignedVarint32 on varints longer than five bytes, from the start of the
\* block and from inside it, with the end where the block ends and elsewhere
NextVarintTail ==
    \/ End
    \/ \E data \in TailBlocks : alloc(data, Undefined, Undefined)
    \/ \E c \in {1, 3} : setCursor(c)
    \/ \E e \in {7, 20} : setEnd(e)
    \/ readUnsignedVarint32

SpecVarintTail == Init /\ [][NextVarintTail]_vars

\* readSplitVarint64 and readUnsignedVarint64 on varints of six to ten bytes and
\* on blocks without a terminator, from the start of the block and from inside it
NextSplitTail ==
    \/ End
    \/ \E data \in TailBlocks : alloc(data, Undefined, Undefined)
    \/ \E c \in {1, 3} : setCursor(c)
    \/ readSplitVarint64
    \/ readUnsignedVarint64

SpecSplitTail == Init /\ [][NextSplitTail]_vars

\* the decoder's operations together with clear() and free()
NextSticky ==
    \/ NextDecoder
    \/ clear
    \/ free

SpecSticky == Init /\ [][NextSticky]_vars

ByteArrays == {<<>>, <<0, 255, 128>>}

\* the encoder's buffer over several end() calls
NextEncoder ==
    \/ \E value \in Uint8s : writeUint8(value)
    \/ \E value \in {N(300), TWO_TO_32} : writeUnsignedVarint32(value)
    \/ \E value \in {N(-2)} : writeInt16(value)
    \/ \E value \in BOOLEAN : writeBool(value)
    \/ \E bs \in ByteArrays : writeBytes(bs)
    \/ Length
    \/ endAndWrite
    \/ End

SpecEncoder == Init /\ [][NextEncoder]_vars

\* 8191 ASCII code units, a surrogate pair and a last code unit: a string that
\* fills readString's codeUnits beyond its flush at 8192
LargePair ==
    [k \in 1..8194 |-> IF k = 8192 THEN 55357 ELSE IF k = 8193 THEN 56832 ELSE 98]

\* "", the ends of the one-, two- and three-byte ranges, surrogate pairs, a high
\* surrogate at the end, high and low surrogates without a partner inside
Strings ==
    {<<>>, <<97, 0, 127, 128, 233, 2047, 2048, 8364, 65535, 55295, 57344>>,
     <<55357, 56832, 55296, 56320, 97, 56319, 57343>>,
     <<97, 55357>>, <<55357, 97, 55357, 55357, 56832, 56832, 98>>,
     LargePair}

\* strings written by writeString and read back by readString with the lengths
\* writeString returned
NextString ==
    \/ \E value \in Strings : writeString(value)
    \/ End
    \/ alloc(Bytes(out), Undefined, Undefined)
    \/ \E k \in 1..Len(log) : readString(log[k].n)

SpecString == Init /\ [][NextString]_vars

\* NaN, the infinities, 1.5 and -0.5
NonIntegers == {FloatNaN, FloatInf(1), FloatInf(-1), Float(1, N(3), -1), Float(-1, N(1), -1)}

\* arguments outside the integers lo .. hi - 1: no integer, lo - 1, hi
Rejected(lo, hi) == NonIntegers \cup {NSub(lo, N(1)), hi}

\* pairs of words of which one is outside 0 .. 2^32 - 1
RejectedPairs ==
    {Pair(w, NZero) : w \in Rejected(NZero, TWO_TO_32)}
        \cup {Pair(NZero, w) : w \in Rejected(NZero, TWO_TO_32)}

\* the integer writers called with arguments they reject, before and after
\* writes they accept
NextAsserts ==
    \/ \E p \in RejectedPairs \cup {Pair(N(1), N(2))} : writeSplitVarint64(p.lo, p.hi)
    \/ \E p \in RejectedPairs : writeSplitFixed64(p.lo, p.hi)
    \/ \E value \in Rejected(NZero, TWO_TO_32) : writeUnsignedVarint32(value)
    \/ \E value \in Rejected(NNeg(TWO_TO_31), TWO_TO_31) : writeSignedVarint32(value)
    \/ \E value \in Rejected(NZero, TWO_TO_64) : writeUnsignedVarint64(value)
    \/ \E value \in Rejected(NNeg(TWO_TO_63), TWO_TO_63) : writeSignedVarint64(value)
    \/ \E value \in Rejected(NNeg(TWO_TO_31), TWO_TO_31) : writeZigzagVarint32(value)
    \/ \E value \in Rejected(NNeg(TWO_TO_63), TWO_TO_63) : writeZigzagVarint64(value)
    \/ \E value \in Rejected(NZero, N(256)) \cup {N(255)} : writeUint8(value)
    \/ \E value \in Rejected(NZero, N(65536)) : writeUint16(value)
    \/ \E value \in Rejected(NZero, TWO_TO_32) : writeUint32(value)
    \/ \E value \in Rejected(NZero, TWO_TO_64) : writeUint64(value)
    \/ \E value \in Rejected(N(-128), N(128)) : writeInt8(value)
    \/ \E value \in Rejected(N(-32768), N(32768)) : writeInt16(value)
    \/ \E value \in Rejected(NNeg(TWO_TO_31), TWO_TO_31) : writeInt32(value)
    \/ \E value \in Rejected(NNeg(TWO_TO_63), TWO_TO_63) \cup {NNeg(TWO_TO_63)} :
            writeInt64(value)
    \/ \E value \in Rejected(NNeg(TWO_TO_31), TWO_TO_31) \cup {N(-1)} : writeEnum(value)
    \/ End

SpecAsserts == Init /\ [][NextAsserts]_vars

RECURSIVE Ten(_)
\* 10^k
Ten(k) == IF k = 0 THEN N(1) ELSE NMul(N(10), Ten(k - 1))

\* magnitudes below 2^63: around 1e7, 2^32, 2^53 (where joinUnsignedDecimalString
\* changes to base 1e7) and with zero digits in base 1e7
Magnitudes ==
    {N(0), N(1), N(9), N(10), N(9999999), N(10000000), MaxUint32, TWO_TO_32,
     NSub(NPow2(53), N(1)), NPow2(53), NAdd(NPow2(53), N(1)), Ten(16), Ten(17), Ten(18),
     NAdd(Ten(18), N(1)), NSub(Ten(18), N(1)), NPow2(56), NPow2(62),
     NSub(TWO_TO_63, N(1))}

\* magnitudes from 2^63 to 2^64 - 1
BigMagnitudes ==
    {TWO_TO_63, NAdd(TWO_TO_63, N(1)), Ten(19), NAdd(Ten(19), Ten(7)),
     NMul(N(3), NPow2(62)), NSub(TWO_TO_64, N(1))}

\* integers from -2^63 to 2^64 - 1
RoundTripValues ==
    Magnitudes \cup BigMagnitudes \cup {NNeg(m) : m \in (Magnitudes \ {N(0)}) \cup {TWO_TO_63}}

\* their canonical decimal strings
RoundTripDecimals == {NumToString(v) : v \in RoundTripValues}

\* the functions of lib.ts on hashes and decimal strings, in every order
NextLib ==
    \/ \E dec \in RoundTripDecimals : decimalStringToHash64(dec)
    \/ \E hash \in Hashes : splitHash64(hash, Undefined)
    \/ ret.op = "decimalStringToHash64" /\ splitHash64(ret.val.hash, ret.dec)
    \/ joinHash64
    \/ joinSignedDecimalString
    \/ joinUnsignedDecimalString

SpecLib == Init /\ [][NextLib]_vars

\* the values at the ends of the two formats
Zeros == {Float(1, NZero, 0), Float(-1, NZero, 0)}

Boundary32 ==
    Zeros \cup {FloatNaN, FloatInf(1), FloatInf(-1)}
        \cup {Float(sg, N(1), -149) : sg \in {1, -1}}
        \cup {Float(sg, FLOAT32_MAX.m, FLOAT32_MAX.e) : sg \in {1, -1}}

Boundary64 ==
    Zeros \cup {FloatNaN, FloatInf(1), FloatInf(-1)}
        \cup {Float(sg, N(1), -1074) : sg \in {1, -1}}
        \cup {Float(sg, FLOAT64_MAX.m, FLOAT64_MAX.e) : sg \in {1, -1}}

\* values in between: 1, 1.5, 0.1 as a float32, the smallest normals, denormals
\* with several bits, 2^-29, and the doubles next to 2 and to 2^-1022
Between ==
    {Float(sg, m, e) : sg \in {1, -1},
                       m \in {N(1), N(3), N(13421773), N(8388607)},
                       e \in {-149, -127, -126, -29, -27, 0, 104}}
        \cup {Float(1, NSub(NPow2(53), N(1)), -52), Float(1, N(1), -1022),
              Float(1, N(3), -1074), Float(1, NSub(NPow2(52), N(1)), -1074),
              Float(-1, NAdd(NPow2(52), N(1)), -1074)}

FloatValues == Boundary32 \cup Boundary64 \cup Between

\* the float functions of lib.ts
NextFloat ==
    \/ \E value \in FloatValues : splitFloat32(value)
    \/ \E value \in FloatValues : splitFloat64(value)
    \/ joinFloat32
    \/ joinFloat64

SpecFloat == Init /\ [][NextFloat]_vars

\* values at the ends of the varint lengths of one to five bytes
SkipValues ==
    {N(0), N(1), N(127), N(128), N(129), N(300), N(16383), N(16384), N(2097151),
     N(2097152), N(268435455), N(268435456), NSub(TWO_TO_32, N(1))}

\* varints written, then skipped and unskipped
NextSkip ==
    \/ \E value \in SkipValues : writeUnsignedVarint32(value)
    \/ End
    \/ alloc(Bytes(out), Undefined, Undefined)
    \/ skipVarint
    \/ \E value \in SkipValues : unskipVarint(value)

SpecSkip == Init /\ [][NextSkip]_vars

\* words: 0, 1, 10, 2^31 - 1, 2^31, 2^32 - 1
Words == {N(0), N(1), N(10), N(2147483647), TWO_TO_31, NSub(TWO_TO_32, N(1))}

\* divisors: 0, small ones, 2^16, 10^7 and the words around 2^31
Divisors == Words \cup {N(2), N(3), N(65536), N(10000000)}

\* div on every pair of words and every divisor
NextUInt64 ==
    \/ \E lo \in Words, hi \in Words : UInt64(lo, hi)
    \/ \E divisor \in Divisors : div(divisor)

SpecUInt64 == Init /\ [][NextUInt64]_vars

\* the instance pool: alloc and free in every order
NextPool ==
    \/ End
    \/ alloc(Undefined, Undefined, Undefined)
    \/ allocMore(Undefined, Undefined, Undefined)
    \/ free
    \/ freeAgain

SpecPool == Init /\ [][NextPool]_vars

\* ------------------------------------------------------------------------
\* Properties
\* ------------------------------------------------------------------------

\* every byte the encoder session appended, before and after end()
WrittenBytes == IF pc = "encode" THEN buffer ELSE out

\* the bytes appended by the i-th successful write
EntryBytes(i) == SubSeq(WrittenBytes, log[i].at + 1, log[i].at + log[i].n)

\* the decoder is over the produced bytes and its last call, rop, started
\* where the bytes of the i-th write, a call of wop, start
ReadBack(i, wop, rop) ==
    /\ pc = "decode"
    /\ bytes = Bytes(out)
    /\ log[i].op = wop
    /\ ret.op = rop
    /\ ret.c0 = log[i].at

\* such a call returns what was written and leaves the cursor after its bytes
RoundTrip(i, wop, rop) ==
    ReadBack(i, wop, rop) =>
        /\ ret.kind = "return"
        /\ ret.val = log[i].arg
        /\ cursor = ret.c0 + log[i].n

\* C1: for every (lo, hi) in [0, 2^32)^2, writeSplitVarint64(lo, hi) followed by
\* readSplitVarint64(convert) over the produced bytes calls convert with exactly
\* (lo, hi) and leaves the cursor advanced by the number of bytes written
C1_SplitVarintRoundTrip ==
    \A i \in 1..Len(log) : RoundTrip(i, "writeSplitVarint64", "readSplitVarint64")

\* a ten-byte split varint, written second, has been read back in full
C1_Witness ==
    /\ Len(log) = 2
    /\ ReadBack(2, "writeSplitVarint64", "readSplitVarint64")
    /\ log[2].n = 10
    /\ log[2].arg = Pair(MaxUint32, MaxUint32)
    /\ ret.val = log[2].arg
    /\ cursor = Len(out)

\* the magnitude hi * 2^32 + lo of a pair of words
Mag64(p) ==
    MNorm([k \in 1..8 |-> IF k <= 4 THEN ByteAt(p.lo.mag, k) ELSE ByteAt(p.hi.mag, k - 4)])

\* the magnitude of the 64-bit two's complement of an integer
TwosComplement64(x) == IF x.neg THEN MSub(NPow2(64).mag, x.mag) ELSE x.mag

\* the magnitude of the zigzag code of an integer: 2v, or -2v - 1 for v < 0
ZigzagMag(x) == IF x.neg THEN MSub(MShl(x.mag, 1), <<1>>) ELSE MShl(x.mag, 1)

\* the integer a canonical decimal string of the inputs denotes
DecimalValue(str) == CHOOSE v \in DecimalValues : NumToString(v) = str

\* the signed 64-bit integer whose two's complement the 8 bytes of a hash are
HashValue(hash) ==
    IF hash[8] >= 128 THEN Num(TRUE, MSub(NPow2(64).mag, MNorm(hash)))
    ELSE Num(FALSE, MNorm(hash))

\* the unsigned 64-bit value a varint write denotes, as a magnitude
Denoted(entry) ==
    CASE entry.op = "writeSplitVarint64" -> Mag64(entry.arg)
      [] entry.op \in {"writeUnsignedVarint32", "writeUnsignedVarint64"} -> entry.arg.mag
      [] entry.op \in {"writeSignedVarint32", "writeSignedVarint64"} ->
            TwosComplement64(entry.arg)
      [] entry.op \in {"writeZigzagVarint32", "writeZigzagVarint64"} -> ZigzagMag(entry.arg)
      [] entry.op = "writeZigzagVarint64String" -> ZigzagMag(DecimalValue(entry.arg.str))
      [] entry.op = "writeVarintHash64" -> MNorm(entry.arg.hash)
      [] entry.op = "writeZigzagVarintHash64" -> ZigzagMag(HashValue(entry.arg.hash))

\* the length of the shortest varint of a magnitude: one byte per 7 bits
VarintLen(m) == Max(1, (MBitLen(m) + 6) \div 7)

\* the canonical varint of a magnitude: 7 bits a byte from the least
\* significant, bit 7 set on every byte but the last
VarintOf(m) ==
    [j \in 1..VarintLen(m) |->
        (ByteAt(MShr(m, 7 * (j - 1)), 1) % 128) + (IF j < VarintLen(m) THEN 128 ELSE 0)]

\* C2: every varint writer emits the canonical (minimum-length) varint of the
\* 64-bit value it denotes: 1 to 10 bytes, bit 7 set on every byte but the
\* last, no shorter encoding of the value; writeSignedVarint32 of a negative
\* int32 appends nine continuation bytes and 0x01 (nine 0xff and 0x01 for -1)
C2_CanonicalVarint ==
    \A i \in 1..Len(log) :
        LET bs == EntryBytes(i)
        IN  /\ Len(bs) \in 1..10
            /\ \A j \in 1..(Len(bs) - 1) : bs[j] >= 128
            /\ bs[Len(bs)] < 128
            /\ Len(bs) = 1 \/ bs[Len(bs)] # 0
            /\ bs = VarintOf(Denoted(log[i]))
            /\ (log[i].op = "writeSignedVarint32" /\ log[i].arg.neg) =>
                    /\ Len(bs) = 10
                    /\ \A j \in 1..9 : bs[j] >= 128
                    /\ bs[10] = 1
            /\ (log[i].op = "writeSignedVarint32" /\ log[i].arg = N(-1)) =>
                    bs = <<255, 255, 255, 255, 255, 255, 255, 255, 255, 1>>

\* -1 was written as a signed 32-bit varint, after a split varint of ten bytes
C2_Witness ==
    /\ Len(log) = 2
    /\ log[1].op = "writeSplitVarint64"
    /\ log[1].n = 10
    /\ log[2].op = "writeSignedVarint32"
    /\ log[2].arg = N(-1)
    /\ EntryBytes(2) = <<255, 255, 255, 255, 255, 255, 255, 255, 255, 1>>

\* C3: for every signed 64-bit integer v written as its canonical decimal
\* string s, writeZigzagVarint64String(s) followed by readZigzagVarint64String()
\* returns s, and readUnsignedVarint64String() on the same bytes returns the
\* decimal string of the zigzag value (2v for v >= 0, -2v - 1 for v < 0)
C3_ZigzagStringLaw ==
    \A i \in 1..Len(log) :
        /\ RoundTrip(i, "writeZigzagVarint64String", "readZigzagVarint64String")
        /\ ReadBack(i, "writeZigzagVarint64String", "readUnsignedVarint64String") =>
                /\ ret.kind = "return"
                /\ ret.val = Str(NumToString(
                                Num(FALSE, ZigzagMag(DecimalValue(log[i].arg.str)))))

\* the part of C3 the code keeps: the unsigned reader returns the zigzag value
C3_UnsignedReading ==
    \A i \in 1..Len(log) :
        ReadBack(i, "writeZigzagVarint64String", "readUnsignedVarint64String") =>
            /\ ret.kind = "return"
            /\ ret.val = Str(NumToString(
                            Num(FALSE, ZigzagMag(DecimalValue(log[i].arg.str)))))

\* C4: each hash64 writer/reader pair returns the hash written;
\* writeFixedHash64 appends exactly the 8 bytes of the hash in order; and
\* readSplitFixed64 passes convert the two little-endian 32-bit words (modulo
\* 2^32) of the 8 bytes at the cursor, whatever follows them, and advances the
\* cursor by 8
C4_Hash64 ==
    /\ \A i \in 1..Len(log) :
        /\ RoundTrip(i, "writeVarintHash64", "readVarintHash64")
        /\ RoundTrip(i, "writeZigzagVarintHash64", "readZigzagVarintHash64")
        /\ RoundTrip(i, "writeFixedHash64", "readFixedHash64")
        /\ log[i].op = "writeFixedHash64" =>
                log[i].n = 8 /\ EntryBytes(i) = log[i].arg.hash
    /\ (/\ pc = "decode"
        /\ ret.op = "readSplitFixed64"
        /\ bytes # Undefined
        /\ ret.c0 + 8 <= Len(bytes.data)) =>
            /\ ret.kind = "return"
            /\ ToWord(ret.val.lo) = SubSeq(bytes.data, ret.c0 + 1, ret.c0 + 4)
            /\ ToWord(ret.val.hi) = SubSeq(bytes.data, ret.c0 + 5, ret.c0 + 8)
            /\ cursor = ret.c0 + 8

\* the test suite's hash was written fixed-width first, another hash after
\* it, and readSplitFixed64 has read the first one's words
C4_Witness ==
    /\ Len(log) = 2
    /\ log[1].op = "writeFixedHash64"
    /\ log[1].arg = Hash(<<18, 52, 86, 120, 135, 101, 67, 33>>)
    /\ pc = "decode"
    /\ ret.op = "readSplitFixed64"
    /\ ret.c0 = 0
    /\ ret.val = Pair(N(2018915346), N(558065031))
    /\ cursor = 8

\* the writer and reader of each fixed-width integer type, and its width
FixedTypes ==
    {<<"writeUint8", "readUint8", 1>>, <<"writeUint16", "readUint16", 2>>,
     <<"writeUint32", "readUint32", 4>>, <<"writeUint64", "readUint64", 8>>,
     <<"writeInt8", "readInt8", 1>>, <<"writeInt16", "readInt16", 2>>,
     <<"writeInt32", "readInt32", 4>>, <<"writeInt64", "readInt64", 8>>}

\* the w bytes of the two's complement of an integer, least significant first
TwosComplementBytes(x, w) ==
    IF x.neg THEN [k \in 1..w |-> ByteAt(MSub(NPow2(8 * w).mag, x.mag), k)]
    ELSE [k \in 1..w |-> ByteAt(x.mag, k)]

\* C5: for each fixed-width integer type (64-bit ones restricted to host
\* numbers), write_T(v) appends exactly width(T) bytes in little-endian
\* two's-complement order and read_T on those bytes returns v
C5_FixedWidthRoundTrip ==
    \A i \in 1..Len(log) : \A t \in FixedTypes :
        /\ log[i].op = t[1] =>
                log[i].n = t[3] /\ EntryBytes(i) = TwosComplementBytes(log[i].arg, t[3])
        /\ RoundTrip(i, t[1], t[2])

\* -2^63 was written as an int64 after a 16-bit value and has been read back
C5_Witness ==
    /\ Len(log) = 2
    /\ log[1].op = "writeInt16"
    /\ ReadBack(2, "writeInt64", "readInt64")
    /\ log[2].arg = NNeg(TWO_TO_63)
    /\ EntryBytes(2) = <<0, 0, 0, 0, 0, 0, 0, 128>>
    /\ ret.val = NNeg(TWO_TO_63)
    /\ cursor = 10

\* C6: writeUnsignedVarint32(v) then readUnsignedVarint32() returns v for every
\* v in [0, 2^32); writeSignedVarint32(v) then readSignedVarint32(), and
\* writeZigzagVarint32(v) then readZigzagVarint32(), return v for every int32
\* v; the cursor ends at the end of the written bytes; 300 is written as
\* [0xac, 0x02]
C6_Varint32RoundTrip ==
    \A i \in 1..Len(log) :
        /\ RoundTrip(i, "writeUnsignedVarint32", "readUnsignedVarint32")
        /\ RoundTrip(i, "writeSignedVarint32", "readSignedVarint32")
        /\ RoundTrip(i, "writeZigzagVarint32", "readZigzagVarint32")
        /\ (log[i].op = "writeUnsignedVarint32" /\ log[i].arg = N(300)) =>
                EntryBytes(i) = <<172, 2>>

\* 300 was written as [0xac, 0x02] after a negative zigzag value, and read back
C6_Witness ==
    /\ Len(log) = 2
    /\ log[1].op = "writeZigzagVarint32"
    /\ log[1].arg.neg
    /\ ReadBack(2, "writeUnsignedVarint32", "readUnsignedVarint32")
    /\ EntryBytes(2) = <<172, 2>>
    /\ ret.val = N(300)
    /\ cursor = Len(out)

\* the ten bytes from index c on all have the continuation bit set
OverlongAt(c) ==
    /\ bytes # Undefined
    /\ \A k \in 0..9 : At(Decoder, c + k) >= 128

\* C7: a varint whose first 10 bytes all have the continuation bit set makes
\* readUnsignedVarint64, readSignedVarint64, readZigzagVarint64 and
\* readUnsignedVarint32 throw instead of returning a value
C7_OverlongRejected ==
    (/\ pc = "decode"
     /\ ret.op \in {"readUnsignedVarint64", "readSignedVarint64", "readZigzagVarint64",
                    "readUnsignedVarint32"}
     /\ OverlongAt(ret.c0)) => ret.kind # "return"

\* readUnsignedVarint32 has thrown on eleven 0xff bytes followed by 0x00
C7_Witness ==
    /\ pc = "decode"
    /\ bytes = Overlong(11, <<0>>)
    /\ ret.op = "readUnsignedVarint32"
    /\ ret.c0 = 0
    /\ ret.kind = "AssertionError"

\* the read operations of the decoder
ReadOps ==
    {"readSplitVarint64", "readSplitZigzagVarint64", "readSplitFixed64",
     "readUnsignedVarint32", "readSignedVarint32", "readZigzagVarint32",
     "readUnsignedVarint64", "readUnsignedVarint64String", "readSignedVarint64",
     "readZigzagVarint64", "readZigzagVarintHash64", "readZigzagVarint64String",
     "readVarintHash64", "readUint8", "readUint16", "readUint32", "readUint64",
     "readInt8", "readInt16", "readInt32", "readInt64", "readFloat", "readDouble",
     "readBool", "readString", "readBytes", "readFixedHash64"}

\* C8: every read operation asserts cursor <= end after advancing, so no read
\* returns normally leaving cursor > end
C8_ReadsAssertCursor ==
    (pc = "decode" /\ ret.op \in ReadOps /\ ret.kind = "return") => cursor <= end

\* the fixed-width reads and the number of bytes each consumes
FixedReads ==
    {"readUint8", "readUint16", "readUint32", "readUint64", "readInt8", "readInt16",
     "readInt32", "readInt64", "readFloat", "readDouble"}

FixedWidth(op) ==
    CASE op \in {"readUint8", "readInt8"} -> 1
      [] op \in {"readUint16", "readInt16"} -> 2
      [] op \in {"readUint32", "readInt32", "readFloat"} -> 4
      [] op \in {"readUint64", "readInt64", "readDouble"} -> 8

C10_DecoderInvariant ==
    (pc = "decode" /\ ~error) =>
        /\ 0 <= start
        /\ start <= cursor
        /\ cursor <= end
        /\ end <= (IF bytes = Undefined THEN 0 ELSE Len(bytes.data))

\* C11 as stated: n repetitions of alloc().free() from an empty pool leave
\* min(n, 100) decoders in the pool
C11_PoolIdentity ==
    (poolLog.cyclic /\ live = 0) => instanceCache = Min(poolLog.frees, PoolCap)

\* C11: n repetitions of alloc().free() from an empty pool leave min(n, 1)
\* decoders in the pool, since every alloc after the first pops the decoder the
\* free before it pushed; after 101 cycles the pool holds 1
C11_PoolCycles ==
    (poolLog.cyclic /\ live = 0) => instanceCache = Min(poolLog.frees, 1)

C11_Witness ==
    /\ poolLog.cyclic
    /\ live = 0
    /\ poolLog.frees = 101
    /\ ret.op = "free"
    /\ instanceCache = 1

\* C12: the pool never holds more than 100 decoders, and k allocs followed by
\* one free of each of the k decoders leave min(k, 100) decoders in the pool
C12_PoolCap ==
    /\ instanceCache <= 100
    /\ (poolLog.batch /\ live = 0) => instanceCache = Min(poolLog.allocs, 100)
    /\ (poolLog.batch /\ ret.op = "free") =>
            /\ instanceCache = Min(poolLog.frees, 100)
            /\ Decoder = Cleared

C12_Witness ==
    /\ poolLog.batch
    /\ live = 0
    /\ poolLog.allocs = 101
    /\ ret.op = "free"
    /\ instanceCache = 100

IsPrefix(s, t) == Len(s) <= Len(t) /\ SubSeq(t, 1, Len(s)) = s

\* C13: end() returns the bytes of the buffer, each in 0..255, and leaves the
\* encoder empty; every write only appends to the buffer, so the buffer is the
\* appended bytes in call order; no write changes an array end() returned
C13_EndReturnsWrites ==
    [][/\ (ret'.op = "end") =>
            /\ ret'.val = Bytes(buffer)
            /\ out' = buffer
            /\ \A i \in 1..Len(buffer) : buffer[i] \in 0..255
            /\ buffer' = <<>>
       /\ (ret'.op = "length") => (ret'.val = N(Len(buffer)) /\ buffer' = buffer)
       /\ (pc = "encode" /\ ret'.op \notin {"end", "length"}) =>
            /\ IsPrefix(buffer, buffer')
            /\ Len(buffer') - Len(buffer) =
                   (IF ret'.kind = "return" THEN log'[Len(log')].n ELSE 0)
            /\ out' = out]_vars

C13_Witness ==
    /\ pc = "encode"
    /\ outId >= 0
    /\ Len(out) > 0
    /\ Len(buffer) > 0
    /\ out # buffer
    /\ ret.op \notin {"end", "length"}
    /\ ret.kind = "return"

IsHigh(c) == c >= 55296 /\ c <= 56319

IsLow(c) == c >= 56320 /\ c <= 57343

\* no unpaired surrogate: every high surrogate is followed by a low one and
\* every low surrogate follows a high one
WellFormed(s) ==
    \A k \in 1..Len(s) :
        /\ IsHigh(s[k]) => (k < Len(s) /\ IsLow(s[k + 1]))
        /\ IsLow(s[k]) => (k > 1 /\ IsHigh(s[k - 1]))

\* the UTF-8 encoding of code point cp
Utf8Of(cp) ==
    IF cp < 128 THEN <<cp>>
    ELSE IF cp < 2048 THEN <<192 + (cp \div 64), 128 + (cp % 64)>>
    ELSE IF cp < 65536
    THEN <<224 + (cp \div 4096), 128 + ((cp \div 64) % 64), 128 + (cp % 64)>>
    ELSE <<240 + (cp \div 262144), 128 + ((cp \div 4096) % 64),
           128 + ((cp \div 64) % 64), 128 + (cp % 64)>>

\* the bytes that stand for the code unit at position k of s: a high surrogate
\* before a low one stands for their code point, the low one for nothing more; a
\* high surrogate without a low one after it gives loneHigh (at the end of s:
\* lastHigh)
UnitBytes(s, k, loneHigh, lastHigh) ==
    IF IsHigh(s[k])
    THEN IF k < Len(s) /\ IsLow(s[k + 1])
         THEN Utf8Of(65536 + (s[k] - 55296) * 1024 + (s[k + 1] - 56320))
         ELSE IF k < Len(s) THEN loneHigh ELSE lastHigh
    ELSE IF IsLow(s[k]) /\ k > 1 /\ IsHigh(s[k - 1]) THEN <<>>
    ELSE Utf8Of(s[k])

\* the bytes for positions lo..hi of s, by halves
RECURSIVE StringBytes(_, _, _, _, _)
StringBytes(s, lo, hi, loneHigh, lastHigh) ==
    IF lo > hi THEN <<>>
    ELSE IF lo = hi THEN UnitBytes(s, lo, loneHigh, lastHigh)
    ELSE LET mid == (lo + hi) \div 2
         IN  StringBytes(s, lo, mid, loneHigh, lastHigh)
               \o StringBytes(s, mid + 1, hi, loneHigh, lastHigh)

\* the UTF-8 encoding of a string without unpaired surrogates
Utf8(s) == StringBytes(s, 1, Len(s), <<>>, <<>>)

\* C14: writeString(s) of a string without unpaired surrogates appends the UTF-8
\* encoding of s and returns its length n, and readString(n) at those bytes returns
\* s and moves the cursor by n, strings of more than 8192 code units included
C14_Utf8RoundTrip ==
    /\ \A k \in 1..Len(log) :
          (log[k].op = "writeString" /\ WellFormed(log[k].arg.str)) =>
            /\ EntryBytes(k) = Utf8(log[k].arg.str)
            /\ (pc = "decode" /\ ret.op = "readString"
                  /\ ret.c0 = log[k].at /\ ret.arg = log[k].n) =>
                    /\ ret.kind = "return"
                    /\ ret.val = log[k].arg
                    /\ cursor = ret.c0 + log[k].n
    /\ (pc = "encode" /\ ret.op = "writeString") =>
          /\ ret.kind = "return"
          /\ ret.val = N(log[Len(log)].n)

C14_Witness ==
    /\ pc = "decode"
    /\ ret.op = "readString"
    /\ Len(log) = 2
    /\ log[2].arg = Str(LargePair)
    /\ log[1].arg = Str(<<55357, 56832, 55296, 56320, 97, 56319, 57343>>)
    /\ ret.c0 = log[2].at
    /\ ret.arg = log[2].n
    /\ ret.val = Str(LargePair)
    /\ cursor = 13 + 8196

\* the bytes of the write logged at position k, with a high surrogate that has no
\* low one after it standing for loneHigh inside the string and for lastHigh at
\* its end
WrittenAs(k, loneHigh, lastHigh) ==
    LET s == log[k].arg.str
    IN  EntryBytes(k) = StringBytes(s, 1, Len(s), loneHigh, lastHigh)

\* the three bytes writeString gives a code unit from 0x800 on that is not part
\* of a pair
LastUnitBytes(k) ==
    LET s == log[k].arg.str
    IN  IF Len(s) = 0 THEN <<>> ELSE Utf8Of(s[Len(s)])

\* writeString returned the number of bytes it appended
ReturnedLength ==
    (pc = "encode" /\ ret.op = "writeString") =>
        (ret.kind = "return" /\ ret.val = N(Len(EntryBytes(Len(log)))))

\* C19 as stated: writeString appends nothing for a high surrogate that is not
\* followed by a low surrogate, whether another code unit or none follows it, and
\* returns the number of bytes appended
C19_UnpairedHighDropped ==
    /\ \A k \in 1..Len(log) : log[k].op = "writeString" => WrittenAs(k, <<>>, <<>>)
    /\ ReturnedLength

\* what writeString does with the high surrogates of C19: nothing is appended for
\* one followed by a code unit that is not a low surrogate, one that is the last
\* code unit is written on three bytes like any other code unit from 0x800 on,
\* and the return value is the number of bytes appended
C19_UnpairedHigh ==
    /\ \A k \in 1..Len(log) :
          log[k].op = "writeString" => WrittenAs(k, <<>>, LastUnitBytes(k))
    /\ ReturnedLength

C19_Witness ==
    /\ pc = "encode"
    /\ ret.op = "writeString"
    /\ Len(log) = 2
    /\ log[1].arg = Str(<<55357, 97, 55357, 55357, 56832, 56832, 98>>)
    /\ log[1].n = 9
    /\ log[2].arg = Str(<<97, 55357>>)
    /\ EntryBytes(2) = <<97, 237, 160, 189>>
    /\ ret.val = N(4)

\* the declared range of each integer writer: the integers lo .. hi - 1
Declared(op) ==
    CASE op \in {"writeUint8"} -> Pair(NZero, N(256))
      [] op \in {"writeUint16"} -> Pair(NZero, N(65536))
      [] op \in {"writeUint32", "writeUnsignedVarint32"} -> Pair(NZero, NPow2(32))
      [] op \in {"writeUint64", "writeUnsignedVarint64"} -> Pair(NZero, NPow2(64))
      [] op \in {"writeInt8"} -> Pair(N(-128), N(128))
      [] op \in {"writeInt16"} -> Pair(N(-32768), N(32768))
      [] op \in {"writeInt32", "writeSignedVarint32", "writeZigzagVarint32", "writeEnum"} ->
            Pair(NNeg(NPow2(31)), NPow2(31))
      [] op \in {"writeInt64", "writeSignedVarint64", "writeZigzagVarint64"} ->
            Pair(NNeg(NPow2(63)), NPow2(63))

\* v is an exact integer and lies in lo .. hi - 1 (the numbers the model keeps in
\* sign * m * 2^e form are no integers)
ExactIntegerIn(v, lo, hi) == IsInteger(v) /\ NLeq(lo, v) /\ NLess(v, hi)

\* the argument of a call of an integer writer is what the writer declares
Acceptable(op, arg) ==
    IF op \in {"writeSplitVarint64", "writeSplitFixed64"}
    THEN ExactIntegerIn(arg.lo, NZero, NPow2(32)) /\ ExactIntegerIn(arg.hi, NZero, NPow2(32))
    ELSE ExactIntegerIn(arg, Declared(op).lo, Declared(op).hi)

IntegerWrites ==
    {"writeUint8", "writeUint16", "writeUint32", "writeUint64", "writeInt8", "writeInt16",
     "writeInt32", "writeInt64", "writeUnsignedVarint32", "writeUnsignedVarint64",
     "writeSignedVarint32", "writeSignedVarint64", "writeZigzagVarint32",
     "writeZigzagVarint64", "writeEnum", "writeSplitVarint64", "writeSplitFixed64"}

DecimalsIn(lo, hi) ==
    {NumToString(v) : v \in {w \in RoundTripValues : NLeq(lo, w) /\ NLess(w, hi)}}

\* C16: joinHash64 of the words of splitHash64(h) is h; for the decimal string s
\* of an integer in -2^63 .. 2^63 - 1 joinSignedDecimalString of the words of
\* splitHash64(decimalStringToHash64(s)) is s, and for s in 0 .. 2^64 - 1 so is
\* joinUnsignedDecimalString
C16_Hash64RoundTrip ==
    /\ ret.op = "joinHash64" => ret.val = Str(ret.arg.hash)
    /\ (/\ ret.op = "joinSignedDecimalString"
        /\ ret.dec # Undefined
        /\ ret.dec.str \in DecimalsIn(NNeg(NPow2(63)), NPow2(63))) => ret.val = ret.dec
    /\ (/\ ret.op = "joinUnsignedDecimalString"
        /\ ret.dec # Undefined
        /\ ret.dec.str \in DecimalsIn(NZero, NPow2(64))) => ret.val = ret.dec

C16_Witness ==
    /\ ret.op = "joinSignedDecimalString"
    /\ ret.dec = Str(<<"-", "9", "2", "2", "3", "3", "7", "2", "0", "3", "6", "8", "5", "4",
                       "7", "7", "5", "8", "0", "8">>)
    /\ ret.val = ret.dec
    /\ ret.arg = Hash(<<0, 0, 0, 0, 0, 0, 0, 128>>)

\* C17: getError() is true whenever the cursor is before start or past end, and
\* whenever the error flag is set
C17_GetError == (cursor < start \/ cursor > end \/ error) => GetError(Decoder)

\* what getError() tests: the error flag, a cursor below 0, a cursor past end
C17_GetErrorFromZero == (cursor < 0 \/ cursor > end \/ error) <=> GetError(Decoder)

\* C18: once the error flag is set, it stays set and getError() is true after any
\* read, reset, advance, setCursor, setEnd or setBlock; clear() and free() leave the
\* decoder without bytes, with start = end = cursor = 0 and the flag clear
C18_StickyError ==
    [][/\ (error /\ ret'.op \notin {"clear", "free", "alloc"}) =>
                (error' /\ GetError(Decoder)')
       /\ (pc = "decode" /\ ret'.op \in {"clear", "free"}) =>
                (/\ bytes' = Undefined
                 /\ start' = 0 /\ end' = 0 /\ cursor' = 0
                 /\ ~error'
                 /\ ~GetError(Decoder)')]_vars

C18_Witness ==
    /\ error
    /\ ret.op = "setBlock"
    /\ calls = 2
    /\ cursor = 1 /\ end = 2
    /\ GetError(Decoder)

\* the five bytes from index c on all have the continuation bit set
FifthByteSet(c) ==
    /\ bytes # Undefined
    /\ \A k \in 0..4 : At(Decoder, c + k) >= 128

\* which of the five bytes behind them fail bytes[this.cursor++] >= 128
TailClear(c) == {j \in 0..4 : ~(At(Decoder, c + 5 + j) >= 128)}

\* C20 as stated: when the fifth byte of the varint has its high bit set and one
\* of the up to five bytes behind it has its high bit clear, readUnsignedVarint32
\* fails
C20_ClearByteFails ==
    (/\ pc = "decode"
     /\ ret.op = "readUnsignedVarint32"
     /\ FifthByteSet(ret.c0)
     /\ TailClear(ret.c0) # {}) => ret.kind # "return"

\* C20: when the fifth byte of the varint has its high bit set, readUnsignedVarint32
\* consumes the bytes behind it up to and including the first of five that has
\* not its high bit set and returns (unless the cursor is then past end); it
\* fails when all five have their high bit set, having consumed ten bytes
C20_ClearByteEnds ==
    (/\ pc = "decode"
     /\ ret.op = "readUnsignedVarint32"
     /\ FifthByteSet(ret.c0)) =>
        IF TailClear(ret.c0) = {}
        THEN ret.kind = "AssertionError" /\ cursor = ret.c0 + 10
        ELSE /\ \E j \in TailClear(ret.c0) :
                    /\ \A i \in TailClear(ret.c0) : j <= i
                    /\ cursor = ret.c0 + 5 + j + 1
             /\ ret.kind = (IF cursor <= end THEN "return" ELSE "AssertionError")

\* the seventh byte ended a varint read from index 1
C20_Witness ==
    /\ pc = "decode"
    /\ ret.op = "readUnsignedVarint32"
    /\ bytes = Overlong(7, <<1>>)
    /\ ret.c0 = 1
    /\ FifthByteSet(ret.c0)
    /\ TailClear(ret.c0) = {1, 2, 3, 4}
    /\ cursor = 8
    /\ ret.kind = "return"
    /\ ret.val = N(-1)

\* C21: a read operation called on a decoder that has no bytes fails instead of
\* returning a value
C21_UnboundReadFails ==
    (pc = "decode" /\ ret.op \in ReadOps /\ bytes = Undefined) => ret.kind # "return"

\* the same for every read operation but readBool, which returns false
C21_UnboundReadFailsButBool ==
    (pc = "decode" /\ ret.op \in ReadOps /\ bytes = Undefined) =>
        IF ret.op = "readBool" THEN ret.kind = "return" /\ ret.val = Bool(FALSE)
        ELSE ret.kind = "TypeError"

\* two results of a join are the same number, zeros of different sign apart
SameFloat(a, b) ==
    /\ a.float = b.float
    /\ a.float = "Infinity" => a.sign = b.sign
    /\ a.float = "finite" =>
            /\ a.sign = b.sign
            /\ ~ScaledLess(a.m.mag, a.e, b.m.mag, b.e)
            /\ ~ScaledLess(b.m.mag, b.e, a.m.mag, a.e)

\* C22: joinFloat32 of the words of splitFloat32, and joinFloat64 of the words of
\* splitFloat64, is the value that was split for +0, -0, +Infinity, -Infinity,
\* NaN, the smallest denormal and the largest finite value of the format, and -0
\* splits to the sign bit alone
C22_FloatBoundary ==
    /\ (ret.op = "joinFloat32" /\ ret.arg \in Boundary32) => SameFloat(ret.val, ret.arg)
    /\ (ret.op = "joinFloat64" /\ ret.arg \in Boundary64) => SameFloat(ret.val, ret.arg)
    /\ (ret.op = "splitFloat32" /\ ret.arg = Float(-1, NZero, 0)) =>
            (split64Low = NPow2(31) /\ split64High = NZero)
    /\ (ret.op = "splitFloat64" /\ ret.arg = Float(-1, NZero, 0)) =>
            (split64Low = NZero /\ split64High = NPow2(31))

\* the largest double came back from the words 0xffffffff, 0x7fefffff
C22_Witness ==
    /\ ret.op = "joinFloat64"
    /\ ret.arg = Float(1, FLOAT64_MAX.m, FLOAT64_MAX.e)
    /\ split64Low = NSub(NPow2(32), N(1))
    /\ split64High = N(2146435071)
    /\ SameFloat(ret.val, ret.arg)

\* a varint of k bytes starts at index c and lies inside the window: k - 1 bytes
\* with the high bit set, then one without
VarintAt(c, k) ==
    /\ bytes # Undefined
    /\ start <= c /\ c + k <= end /\ c + k <= Len(bytes.data)
    /\ \A i \in 0..(k - 2) : At(Decoder, c + i) >= 128
    /\ At(Decoder, c + k - 1) < 128

RECURSIVE Payload(_, _, _)
\* the 7-bit groups of the first n bytes from index c on, least significant first
Payload(c, n, i) ==
    IF i >= n THEN NZero
    ELSE NExactAdd(N(At(Decoder, c + i) % 128), NMul(N(128), Payload(c, n, i + 1)))

\* the low 32 bits of a varint of k bytes at index c, as a value in 0 .. 2^32 - 1
Low32(c, k) == JShr(Payload(c, Min(k, 5), 0), 0)

\* C23: on a well-formed varint of k <= 10 bytes inside the window
\* readUnsignedVarint32 advances the cursor by k and returns the low 32 bits of
\* the encoded value as an integer in 0 .. 2^32 - 1
C23_Unsigned32 ==
    \A k \in 1..10 :
        (/\ pc = "decode"
         /\ ret.op = "readUnsignedVarint32"
         /\ VarintAt(ret.c0, k)) =>
            (ret.kind = "return" /\ cursor = ret.c0 + k /\ ret.val = Low32(ret.c0, k))

\* what the code returns: the low 32 bits read as unsigned for k <= 5, and read
\* as a signed 32-bit integer for k > 5
C23_Signed32Tail ==
    \A k \in 1..10 :
        (/\ pc = "decode"
         /\ ret.op = "readUnsignedVarint32"
         /\ VarintAt(ret.c0, k)) =>
            /\ ret.kind = "return"
            /\ cursor = ret.c0 + k
            /\ ret.val = (IF k <= 5 THEN Low32(ret.c0, k) ELSE JOr(Low32(ret.c0, k), NZero))

\* C24: readString(length) with length >= 0 and cursor + length <= end leaves the
\* cursor at its place before the call plus length, whatever the window holds
C24_ReadStringConsumesLength ==
    (/\ pc = "decode"
     /\ ret.op = "readString"
     /\ bytes # Undefined
     /\ ret.arg >= 0
     /\ ret.c0 + ret.arg <= end) => cursor = ret.c0 + ret.arg

\* the same when the bytes read are the encoding of a whole string
C24_WholeStringConsumesLength ==
    (/\ pc = "decode"
     /\ ret.op = "readString"
     /\ ret.kind = "return"
     /\ \E k \in 1..Len(log) : ret.c0 = log[k].at /\ ret.arg = log[k].n) =>
        cursor = ret.c0 + ret.arg

\* the call was readBytes(length) on a decoder with bytes
ReadBytesCalled == pc = "decode" /\ ret.op = "readBytes" /\ bytes # Undefined

\* the length was negative or reached past the array
BadLength == ret.arg < 0 \/ ret.c0 + ret.arg > Len(bytes.data)

\* C25: readBytes(length) with length < 0 or cursor + length > len(bytes) sets the
\* error flag, throws and leaves the cursor where it was; otherwise it advances
\* the cursor by length, asserts cursor <= end and returns the length bytes that
\* start at the cursor
C25_ReadBytes ==
    ReadBytesCalled =>
        IF BadLength
        THEN error /\ ret.kind = "TypeError" /\ cursor = ret.c0
        ELSE /\ cursor = ret.c0 + ret.arg
             /\ IF cursor <= end
                THEN /\ ret.kind = "return"
                     /\ ret.val = Bytes([i \in 1..ret.arg |-> At(Decoder, ret.c0 + i - 1)])
                ELSE ret.kind = "AssertionError"

\* the same for calls made with the cursor at 0 or above
C25_ReadBytesFromCursor ==
    (ReadBytesCalled /\ ret.c0 >= 0) =>
        IF BadLength
        THEN error /\ ret.kind = "TypeError" /\ cursor = ret.c0
        ELSE /\ cursor = ret.c0 + ret.arg
             /\ IF cursor <= end
                THEN /\ ret.kind = "return"
                     /\ ret.val = Bytes([i \in 1..ret.arg |-> At(Decoder, ret.c0 + i - 1)])
                ELSE ret.kind = "AssertionError"

\* readSplitVarint64 and the readers that call it
SplitVarintReaders ==
    {"readSplitVarint64", "readSplitZigzagVarint64", "readUnsignedVarint64",
     "readUnsignedVarint64String", "readSignedVarint64", "readZigzagVarint64",
     "readZigzagVarintHash64", "readZigzagVarint64String", "readVarintHash64"}

\* C26: when readSplitVarint64 or a reader built on it finds no terminator within
\* 10 bytes, the error is surfaced and getError() is true afterwards
C26_NoTerminatorLatches ==
    (/\ pc = "decode"
     /\ ret.op \in SplitVarintReaders
     /\ OverlongAt(ret.c0)) => (ret.kind # "return" /\ GetError(Decoder))

\* what the code does on a decoder whose error flag is clear: the error is
\* surfaced, the cursor is ten bytes on and the flag stays clear
C26_NoTerminatorThrows ==
    (/\ pc = "decode"
     /\ ret.op \in SplitVarintReaders
     /\ OverlongAt(ret.c0)) =>
        (ret.kind = "AssertionError" /\ cursor = ret.c0 + 10 /\ ~error)

\* the hash of the test suite
HashC == <<18, 52, 86, 120, 135, 101, 67, 33>>

\* "2419080757246853138"
HashCStated ==
    <<"2", "4", "1", "9", "0", "8", "0", "7", "5", "7", "2", "4", "6", "8", "5", "3", "1", "3",
      "8">>

\* "2396871059205141522", the decimal form of 0x2143658778563412
HashCDecimal ==
    <<"2", "3", "9", "6", "8", "7", "1", "0", "5", "9", "2", "0", "5", "1", "4", "1", "5", "2",
      "2">>

\* C27 as stated: joinSignedDecimalString of the words of splitHash64 of the hash
\* with bytes 0x12 0x34 0x56 0x78 0x87 0x65 0x43 0x21 is "2419080757246853138"
C27_HashDecimalStated ==
    (ret.op = "joinSignedDecimalString" /\ ret.arg = Hash(HashC)) =>
        ret.val = Str(HashCStated)

\* C27: joinSignedDecimalString of the words of splitHash64 of that hash is
\* "2396871059205141522"
C27_HashDecimal ==
    (ret.op = "joinSignedDecimalString" /\ ret.arg = Hash(HashC)) =>
        ret.val = Str(HashCDecimal)

C27_Witness ==
    /\ ret.op = "joinSignedDecimalString"
    /\ ret.arg = Hash(HashC)
    /\ ret.dec = Undefined
    /\ split64Low = N(2018915346)
    /\ split64High = N(558065031)
    /\ ret.val = Str(HashCDecimal)

\* the same through the encoder and the decoder: writeFixedHash64 of the hash,
\* then readInt64String
C27_ReadInt64String ==
    (/\ pc = "decode"
     /\ ret.op = "readInt64String"
     /\ ret.kind = "return"
     /\ \E k \in 1..Len(log) :
            /\ log[k].op = "writeFixedHash64" /\ log[k].arg = Hash(HashC)
            /\ log[k].at = ret.c0) => ret.val = Str(HashCDecimal)

\* the first varint written was skipped from its start and unskipVarint was then
\* called with its value
Unskipped ==
    /\ pc = "decode"
    /\ ret.op = "unskipVarint"
    /\ Len(log) >= 1
    /\ log[1].op = "writeUnsignedVarint32"
    /\ ret.arg = log[1].arg
    /\ ret.c0 = log[1].n

\* C28: after the varint of a value v in 0 .. 2^32 - 1 was skipped with
\* skipVarint(), unskipVarint(v) moves the cursor back to the start of the varint
C28_UnskipUndoesSkip == Unskipped => cursor = 0

RECURSIVE Reaches128(_)
\* value is 128 after some number of shifts by 7 bits
Reaches128(value) ==
    IF value = N(128) THEN TRUE
    ELSE IF NLess(value, N(128)) THEN FALSE
    ELSE Reaches128(NFloorDivPow2(value, 7))

\* what the code does: the cursor is back at the start unless v >>> 7k is 128 for
\* some k, and one byte short of it then
C28_UnskipButAt128 ==
    Unskipped => cursor = (IF Reaches128(ret.arg) THEN 1 ELSE 0)

\* a word: an integer in 0 .. 2^32 - 1
IsWord(w) == IsInteger(w) /\ NLeq(NZero, w) /\ NLess(w, NPow2(32))

\* C29: n.div(d) terminates for words lo, hi and d; for d = 0 it returns an empty
\* array; otherwise it returns [q, r] with n = q * d + r and 0 <= r < d, all
\* halves of q and r being words
C29_Div ==
    ret.op = "div" =>
        /\ ret.kind = "return"
        /\ IF ret.arg[2] = NZero THEN ret.val = <<>>
           ELSE /\ Len(ret.val) = 2
                /\ \A i \in 1..2 : IsWord(ret.val[i].lo) /\ IsWord(ret.val[i].hi)
                /\ MAdd(MMul(Mag64(ret.val[1]), ret.arg[2].mag), Mag64(ret.val[2]))
                        = Mag64(ret.arg[1])
                /\ MLess(Mag64(ret.val[2]), ret.arg[2].mag)

\* 2^64 - 1 was divided by 10
C29_Witness ==
    /\ ret.op = "div"
    /\ ret.arg = <<Pair(NSub(NPow2(32), N(1)), NSub(NPow2(32), N(1))), N(10)>>
    /\ ret.kind = "return"
    /\ ret.val = <<Pair(NAdd(NMul(N(39321), N(65536)), N(39321)), N(429496729)), Pair(N(5), NZero)>>

\* the nine bytes from index c on have the continuation bit set and the tenth is
\* a terminator with payload bits above its lowest, which is bit 63 of the value
TenthByteExceeds(c) ==
    /\ bytes # Undefined
    /\ \A k \in 0..8 : At(Decoder, c + k) >= 128
    /\ At(Decoder, c + 9) >= 2
    /\ At(Decoder, c + 9) < 128

\* C30: readSplitVarint64 throws for every varint that carries more than 64 bits
\* of data, both when no terminator appears within 10 bytes and when the tenth
\* byte is a terminator whose payload has bits set beyond bit 63 of the value
C30_OverlongThrows ==
    (/\ pc = "decode"
     /\ ret.op = "readSplitVarint64"
     /\ (OverlongAt(ret.c0) \/ TenthByteExceeds(ret.c0))) => ret.kind # "return"

\* what the code does: without a terminator within 10 bytes the call throws; a
\* terminating tenth byte is accepted whatever its payload, the cursor is ten
\* bytes on, and bit 63 of the value is the lowest bit of the tenth byte
C30_TenthByteTruncated ==
    (/\ pc = "decode"
     /\ ret.op = "readSplitVarint64") =>
        /\ OverlongAt(ret.c0) => ret.kind = "AssertionError"
        /\ TenthByteExceeds(ret.c0) =>
               /\ ret.kind = "return"
               /\ cursor = ret.c0 + 10
               /\ NLess(ret.val.hi, TWO_TO_31) <=> (At(Decoder, ret.c0 + 9) % 2 = 0)

====
